---- MODULE Spec2Model ----
(***************************************************************************)
(* RepPolice: squat analysis pipeline (src/src/lib/squatAnalysis.ts) and   *)
(* the analyze page that drives it (src/src/app/analyze/page.tsx).         *)
(*                                                                         *)
(* Numbers.  Landmark coordinates are integers in units of 0.001 of the    *)
(* normalised image, timestamps are integer ticks of 1/6000 s, visibilities are *)
(* integer percent.  Quantities the code derives by division are kept as   *)
(* exact fractions (numerator, denominator) up to the final Math.round,    *)
(* so every threshold comparison is the comparison the code makes over     *)
(* the reals.  Angles are integer millidegrees read from an arctangent     *)
(* table with linear interpolation (error below 0.01 degree); standard     *)
(* deviations use an integer square root.  Frame indices are 0-based as    *)
(* in the code; At(s, i) reads the i-th element of a sequence.             *)
(***************************************************************************)
EXTENDS Integers, Sequences, FiniteSets, TLC

VARIABLES
    videoFile,       \* AnalyzePage state `videoFile`: the selected video (NoVideo is null)
    pc,              \* position of handleAnalyze: "upload", "processing", "analyzing", "delay",
                     \* "results"
    analyzing,       \* AnalyzePage state `analyzing`
    analysisError,   \* AnalyzePage state `analysisError` ("" is null)
    poseResult,      \* handleAnalyze local: the value processVideo resolved with
    squatResult,     \* handleAnalyze local: the value analyzeSquat returned
    trimmed,         \* handleAnalyze local: the value trimFramesToReps returned
    store,           \* AnalysisProvider state `data` (present = FALSE is null)
    route,           \* the router's current page
    signal,          \* segmentation harness: the frame sequence under test
    detected,        \* segmentation harness: detectReps(signal)
    redetected,      \* segmentation harness: detectReps(trimFramesToReps(signal).frames)
    scenario,        \* scenario harness: the parameters of the clip pair under test
    altFrames,       \* scenario harness: the clip with one rep's landmarks changed
    altResult,       \* scenario harness: analyzeSquat(altFrames)
    rawStream,       \* extraction loop: the landmarker's output per sampled instant, and the fps
    conditioner,     \* extraction loop: processVideo's locals i, bodyHeight, prevLandmarks,
                     \* filters and frames
    euro,            \* filter harness: one OneEuroFilter, and the last call made on it
    cameraCase,      \* camera-angle harness: the frames' make-up and detectCameraAngle's answer
    exerciseCase,    \* exercise-type harness: the frames' make-up and detectExerciseType's answer
    fpsProbe,        \* detectNativeFps: its closure variables, pending callbacks and promise
    extraction,      \* processVideo: its position, the landmarker, the video element, the promise
    recorder         \* CameraRecorder: its state, the MediaRecorder and the page's mode

vars == <<videoFile, pc, analyzing, analysisError, poseResult, squatResult, trimmed, store,
         route, signal, detected, redetected, scenario, altFrames, altResult, rawStream,
         conditioner, euro, cameraCase, exerciseCase, fpsProbe, extraction, recorder>>

conditionVars == <<rawStream, conditioner, euro>>

laterVars == <<exerciseCase, fpsProbe, extraction, recorder>>

-----------------------------------------------------------------------------
(* Arithmetic helpers *)

\* timestamps are integer ticks; one second is TicksPerSecond ticks
TicksPerSecond == 6000

At(s, i) == s[i + 1]

Abs(x) == IF x < 0 THEN -x ELSE x

Max2(a, b) == IF a >= b THEN a ELSE b

Min2(a, b) == IF a <= b THEN a ELSE b

MaxOf(S) == CHOOSE x \in S : \A y \in S : y <= x

MinOf(S) == CHOOSE x \in S : \A y \in S : x <= y

RECURSIVE SumSeq(_)
SumSeq(s) == IF s = <<>> THEN 0 ELSE Head(s) + SumSeq(Tail(s))

\* Math.floor(n / d) for d > 0
FloorDiv(n, d) == n \div d

\* Math.ceil(n / d) for d > 0
CeilDiv(n, d) == -((-n) \div d)

\* Math.round(n / d) for d > 0: the nearest integer, halves towards +infinity
mathRound(n, d) == (2 * n + d) \div (2 * d)

\* Math.round(clamp(n / d, lo, hi)) for d > 0
clampRound(n, d, lo, hi) ==
    IF n < lo * d THEN lo
    ELSE IF n > hi * d THEN hi
    ELSE mathRound(n, d)

\* floor of the square root of n >= 0
RECURSIVE SqrtIter(_, _, _)
SqrtIter(n, lo, hi) ==
    IF lo >= hi THEN lo
    ELSE LET mid == (lo + hi + 1) \div 2
         IN IF mid * mid <= n THEN SqrtIter(n, mid, hi) ELSE SqrtIter(n, lo, mid - 1)

ISqrt(n) == SqrtIter(n, 0, Min2(n, 46340))

\* arctan(k / 64) in millidegrees, k = 0..64
AtanTable ==
    << 0, 895, 1790, 2684, 3576, 4467, 5356, 6242, 7125, 8005, 8881, 9752, 10620, 11482,
       12339, 13191, 14036, 14876, 15709, 16535, 17354, 18166, 18970, 19767, 20556, 21337,
       22109, 22874, 23629, 24376, 25115, 25844, 26565, 27277, 27979, 28673, 29358, 30033,
       30700, 31357, 32005, 32645, 33275, 33896, 34509, 35112, 35707, 36293, 36870, 37439,
       37999, 38550, 39094, 39629, 40156, 40675, 41186, 41689, 42184, 42672, 43152, 43625,
       44091, 44549, 45000 >>

\* arctan(a / b) in millidegrees for 0 <= a <= b, b > 0
AtanUnit(a, b) ==
    LET k == (a * 64) \div b
        r == (a * 64) % b
    IN IF k >= 64 THEN 45000
       ELSE At(AtanTable, k) + ((At(AtanTable, k + 1) - At(AtanTable, k)) * r) \div b

\* Math.atan2(a, b) * 180 / Math.PI in millidegrees, for a >= 0 and b >= 0
atan2Deg(a, b) ==
    IF a = 0 THEN 0
    ELSE IF b = 0 THEN 90000
    ELSE IF a <= b THEN AtanUnit(a, b)
    ELSE 90000 - AtanUnit(b, a)

-----------------------------------------------------------------------------
(* Geometry helpers *)

\* angle at b between the rays b->a and b->c, millidegrees in 0..180000
\* (acos of the normalised dot product equals atan2(|cross|, dot) in the plane)
angleBetween(a, b, c) ==
    LET baX == a.x - b.x
        baY == a.y - b.y
        bcX == c.x - b.x
        bcY == c.y - b.y
        dot == baX * bcX + baY * bcY
        cross == baX * bcY - baY * bcX
    IN IF (baX = 0 /\ baY = 0) \/ (bcX = 0 /\ bcY = 0) THEN 0
       ELSE IF dot >= 0 THEN atan2Deg(Abs(cross), dot)
       ELSE 180000 - atan2Deg(Abs(cross), -dot)

\* getRating with the band edges excluded from the upper bands
getRatingStrict(score) ==
    IF score > 80 THEN "green" ELSE IF score > 50 THEN "yellow" ELSE "red"

getRating(score) ==
    IF score >= 80 THEN "green"
    ELSE IF score >= 50 THEN "yellow"
    ELSE "red"

\* angle of the line through the two midpoints from the vertical, millidegrees;
\* dx2, dy2 are the doubled midpoint differences (midpoint halves cancel in atan2)
angleFromVertical(p1, p2, q1, q2) ==
    atan2Deg(Abs((p1.x + p2.x) - (q1.x + q2.x)), Abs((p1.y + p2.y) - (q1.y + q2.y)))

-----------------------------------------------------------------------------
(* Confidence matrix *)

CameraAngles == {"frontal", "rear", "left_side", "right_side", "diagonal", "uncertain"}

metricKeys ==
    << "depth", "kneeTracking", "backAngle", "barPath", "symmetry", "buttWink", "tempo",
       "heelRise", "stanceWidth", "hipShift", "kneeValgus", "kneeTravel", "depthConsistency",
       "thoracicRounding", "hipRiseRate", "reversalControl", "stanceWidthShift",
       "headPosition" >>

MetricSet == {metricKeys[i] : i \in 1..Len(metricKeys)}

\* rows of the table by their pattern over (frontal, rear, left_side, right_side, diagonal, uncertain)
SagittalHigh == [frontal |-> "medium", rear |-> "medium", left_side |-> "high",
                 right_side |-> "high", diagonal |-> "high", uncertain |-> "medium"]

FrontalOnly == [frontal |-> "high", rear |-> "high", left_side |-> "low",
                right_side |-> "low", diagonal |-> "medium", uncertain |-> "medium"]

SideOnly == [frontal |-> "low", rear |-> "low", left_side |-> "high",
             right_side |-> "high", diagonal |-> "medium", uncertain |-> "medium"]

AlwaysHigh == [frontal |-> "high", rear |-> "high", left_side |-> "high",
               right_side |-> "high", diagonal |-> "high", uncertain |-> "high"]

CONFIDENCE_MATRIX ==
    [depth |-> SagittalHigh, kneeTracking |-> FrontalOnly, backAngle |-> SideOnly,
     barPath |-> SideOnly, symmetry |-> FrontalOnly, buttWink |-> SideOnly,
     tempo |-> AlwaysHigh, heelRise |-> SagittalHigh, stanceWidth |-> FrontalOnly,
     hipShift |-> FrontalOnly, kneeValgus |-> FrontalOnly, kneeTravel |-> SideOnly,
     depthConsistency |-> SagittalHigh, thoracicRounding |-> SideOnly,
     hipRiseRate |-> SideOnly, reversalControl |-> SagittalHigh,
     stanceWidthShift |-> FrontalOnly, headPosition |-> SideOnly]

getMetricConfidence(metric, angle) ==
    IF metric \notin DOMAIN CONFIDENCE_MATRIX THEN "medium"
    ELSE IF angle \notin DOMAIN CONFIDENCE_MATRIX[metric] THEN "medium"
    ELSE CONFIDENCE_MATRIX[metric][angle]

-----------------------------------------------------------------------------
(* Smoothing and rep detection.  Hip heights are carried doubled (HipY2 is  *)
(* lh.y + rh.y) and the moving average is carried times 60, so that every  *)
(* window mean (3, 4 or 5 samples) is an exact integer: smoothed values    *)
(* are in units of 1/120000.                                               *)

HipY2(f) == f.landmarks["LEFT_HIP"].y + f.landmarks["RIGHT_HIP"].y

\* 60 * the centred moving average of `values`
movingAverage(values, windowSize) ==
    LET half == windowSize \div 2
        n == Len(values)
    IN [k \in 1..n |->
          LET i == k - 1
              start == Max2(0, i - half)
              end == Min2(n - 1, i + half)
          IN (60 * SumSeq(SubSeq(values, start + 1, end + 1))) \div (end - start + 1)]

\* 0.02 in units of 1/120000
minProminence == 2400

RECURSIVE findValley(_, _, _, _)
findValley(smoothed, from, direction, boundary) ==
    LET next == from + direction
    IN IF (IF direction = -1 THEN next < boundary ELSE next > boundary) THEN from
       ELSE IF At(smoothed, next) > At(smoothed, from) THEN from
       ELSE findValley(smoothed, next, direction, boundary)

\* the local-maximum test of the scan loop at 0-based index i, 2 <= i <= n - 3
isLocalMax(smoothed, i) ==
    /\ At(smoothed, i) > At(smoothed, i - 1)
    /\ At(smoothed, i) > At(smoothed, i - 2)
    /\ At(smoothed, i) > At(smoothed, i + 1)
    /\ At(smoothed, i) > At(smoothed, i + 2)

\* prominence measured against the lower of the two window minima instead of the higher
prominenceEitherSide(smoothed, i) ==
    LET n == Len(smoothed)
        leftMin == MinOf({At(smoothed, j) : j \in Max2(0, i - 15)..i})
        rightMin == MinOf({At(smoothed, j) : j \in i..Min2(n - 1, i + 15)})
    IN At(smoothed, i) - Min2(leftMin, rightMin)

prominence(smoothed, i) ==
    LET n == Len(smoothed)
        leftMin == MinOf({At(smoothed, j) : j \in Max2(0, i - 15)..i})
        rightMin == MinOf({At(smoothed, j) : j \in i..Min2(n - 1, i + 15)})
    IN At(smoothed, i) - Max2(leftMin, rightMin)

\* the accepted bottoms, in scan order
findBottoms(smoothed) ==
    LET n == Len(smoothed)
        accept(i) == isLocalMax(smoothed, i) /\ prominence(smoothed, i) >= minProminence
    IN SelectSeq([k \in 1..(n - 4) |-> k + 1], accept)

\* segmentReps with a later rep starting at the midpoint after its bottom instead of before
segmentRepsNextMidpoint(smoothed, bottoms, n) ==
    [k \in 1..Len(bottoms) |->
        LET bottom == bottoms[k]
            end == IF k = Len(bottoms) THEN findValley(smoothed, bottom, 1, n - 1)
                   ELSE ((bottom + bottoms[k + 1]) \div 2) - 1
            start == IF k = 1 THEN findValley(smoothed, bottom, -1, 0)
                     ELSE end
        IN [startFrame |-> Max2(0, start),
            endFrame |-> Min2(n - 1, end),
            bottomFrame |-> bottom]]

\* segmentReps ending a rep on the midpoint frame itself, which the next rep starts on
segmentRepsSharedBoundary(smoothed, bottoms, n) ==
    [k \in 1..Len(bottoms) |->
        LET bottom == bottoms[k]
            start == IF k = 1 THEN findValley(smoothed, bottom, -1, 0)
                     ELSE (bottoms[k - 1] + bottom) \div 2
            end == IF k = Len(bottoms) THEN findValley(smoothed, bottom, 1, n - 1)
                   ELSE (bottom + bottoms[k + 1]) \div 2
        IN [startFrame |-> Max2(0, start),
            endFrame |-> Min2(n - 1, end),
            bottomFrame |-> bottom]]

segmentReps(smoothed, bottoms, n) ==
    [k \in 1..Len(bottoms) |->
        LET bottom == bottoms[k]
            start == IF k = 1 THEN findValley(smoothed, bottom, -1, 0)
                     ELSE (bottoms[k - 1] + bottom) \div 2
            end == IF k = Len(bottoms) THEN findValley(smoothed, bottom, 1, n - 1)
                   ELSE ((bottom + bottoms[k + 1]) \div 2) - 1
        IN [startFrame |-> Max2(0, start),
            endFrame |-> Min2(n - 1, end),
            bottomFrame |-> bottom]]

detectReps(fs) ==
    IF Len(fs) < 5 THEN <<>>
    ELSE LET hipYValues == [k \in 1..Len(fs) |-> HipY2(fs[k])]
             smoothed == movingAverage(hipYValues, 5)
             bottoms == findBottoms(smoothed)
         IN IF bottoms = <<>> THEN <<>>
            ELSE segmentReps(smoothed, bottoms, Len(fs))

-----------------------------------------------------------------------------
(* Metric scorers.  Every scorer returns a MetricScore record.  A score is  *)
(* computed as an exact fraction n / d and rounded once, as the code does.  *)

\* the frames a for-loop from a to b (inclusive) visits, in order
Range(a, b) == [k \in 1..(b - a + 1) |-> a + k - 1]

L(f, name) == f.landmarks[name]

MetricScore(score, summary, issueFrames) ==
    [score |-> score, rating |-> getRating(score), summary |-> summary,
     issueFrames |-> issueFrames, confidence |-> "high"]

\* a MetricScore the code returns as a literal (degenerate input)
fixedScore(score, rating, summary) ==
    [score |-> score, rating |-> rating, summary |-> summary,
     issueFrames |-> <<>>, confidence |-> "high"]

\* the largest fraction of a non-empty set of <<numerator, denominator>> pairs, denominators > 0
FracMax(S) == CHOOSE p \in S : \A q \in S : q[1] * p[2] <= p[1] * q[2]

\* scoreDepth flagging the frame after the bottom frame's rep instead of the bottom frame
scoreDepthFlagsPastEnd(fs, rep) ==
    LET f == At(fs, rep.bottomFrame)
        hipY2 == L(f, "LEFT_HIP").y + L(f, "RIGHT_HIP").y
        kneeY2 == L(f, "LEFT_KNEE").y + L(f, "RIGHT_KNEE").y
        deficit2 == kneeY2 - hipY2
    IN IF hipY2 > kneeY2
       THEN MetricScore(clampRound(800 + (hipY2 - kneeY2), 10, 80, 100), "Good depth", <<>>)
       ELSE IF deficit2 < 60
       THEN MetricScore(clampRound(4740 - 29 * deficit2, 60, 50, 79), "Close to parallel", <<>>)
       ELSE MetricScore(clampRound(980 - 3 * deficit2, 20, 0, 49),
                        "Squat depth is above parallel", <<rep.endFrame + 1>>)

scoreDepth(fs, rep) ==
    LET f == At(fs, rep.bottomFrame)
        hipY2 == L(f, "LEFT_HIP").y + L(f, "RIGHT_HIP").y
        kneeY2 == L(f, "LEFT_KNEE").y + L(f, "RIGHT_KNEE").y
        belowParallel == hipY2 > kneeY2
        deficit2 == kneeY2 - hipY2
    IN IF belowParallel
       THEN MetricScore(clampRound(800 + (hipY2 - kneeY2), 10, 80, 100),
                        "Good depth", <<>>)
       ELSE IF deficit2 < 60
       THEN MetricScore(clampRound(4740 - 29 * deficit2, 60, 50, 79),
                        "Close to parallel", <<>>)
       ELSE MetricScore(clampRound(980 - 3 * deficit2, 20, 0, 49),
                        "Squat depth is above parallel", <<rep.bottomFrame>>)

\* isActiveFrame without the 25% descent filter
isActiveFrameAlways(fs, rep, frameIdx) == TRUE

isActiveFrame(fs, rep, frameIdx) ==
    LET standingY == HipY2(At(fs, rep.startFrame))
        bottomY == HipY2(At(fs, rep.bottomFrame))
        totalDrop == bottomY - standingY
        descent == HipY2(At(fs, frameIdx)) - standingY
    IN IF Abs(totalDrop) < 20 THEN TRUE
       ELSE IF totalDrop > 0 THEN 4 * descent >= totalDrop
       ELSE 4 * descent <= totalDrop

\* Band mapping shared by the scorers whose measurement is an angle a in millidegrees:
\* good below g, borderline below b, poor from b on with slope k per degree
angleBands(a, g, b, k) ==
    IF a < g THEN clampRound(100 * g - 20 * a, g, 80, 100)
    ELSE IF a < b THEN clampRound(50 * (b - g) + 29 * (b - a), b - g, 50, 79)
    ELSE clampRound(49000 - k * (a - b), 1000, 0, 49)

\* scoreKneeTracking visiting every frame of the clip instead of the rep's frames
scoreKneeTrackingWholeClip(fs, rep) ==
    LET drift(i) ==
            LET f == At(fs, i)
                stanceWidth == Abs(L(f, "LEFT_ANKLE").x - L(f, "RIGHT_ANKLE").x)
                leftDrift == Abs(L(f, "LEFT_KNEE").x - L(f, "LEFT_ANKLE").x)
                rightDrift == Abs(L(f, "RIGHT_KNEE").x - L(f, "RIGHT_ANKLE").x)
            IN <<Max2(leftDrift, rightDrift), stanceWidth>>
        scored(i) == isActiveFrame(fs, rep, i) /\ drift(i)[2] >= 10
        visited == SelectSeq(Range(0, Len(fs) - 1), scored)
        maxDriftRatio == FracMax({<<0, 1>>} \cup {drift(visited[k]) : k \in 1..Len(visited)})
        n == maxDriftRatio[1]
        d == maxDriftRatio[2]
        isIssue(i) == 10 * drift(i)[1] > drift(i)[2]
        issueFrames == SelectSeq(visited, isIssue)
    IN IF 20 * n < d
       THEN MetricScore(clampRound(100 * d - 400 * n, d, 80, 100), "Good knee tracking", issueFrames)
       ELSE IF 10 * n < d
       THEN MetricScore(clampRound(108 * d - 580 * n, d, 50, 79), "Minor knee drift detected", issueFrames)
       ELSE MetricScore(clampRound(69 * d - 200 * n, d, 0, 49),
                        "Significant knee cave detected", issueFrames)

scoreKneeTracking(fs, rep) ==
    LET drift(i) ==
            LET f == At(fs, i)
                stanceWidth == Abs(L(f, "LEFT_ANKLE").x - L(f, "RIGHT_ANKLE").x)
                leftDrift == Abs(L(f, "LEFT_KNEE").x - L(f, "LEFT_ANKLE").x)
                rightDrift == Abs(L(f, "RIGHT_KNEE").x - L(f, "RIGHT_ANKLE").x)
            IN <<Max2(leftDrift, rightDrift), stanceWidth>>
        scored(i) == isActiveFrame(fs, rep, i) /\ drift(i)[2] >= 10
        visited == SelectSeq(Range(rep.startFrame, rep.endFrame), scored)
        maxDriftRatio == FracMax({<<0, 1>>} \cup {drift(visited[k]) : k \in 1..Len(visited)})
        n == maxDriftRatio[1]
        d == maxDriftRatio[2]
        isIssue(i) == 10 * drift(i)[1] > drift(i)[2]
        issueFrames == SelectSeq(visited, isIssue)
    IN IF 20 * n < d
       THEN MetricScore(clampRound(100 * d - 400 * n, d, 80, 100), "Good knee tracking", issueFrames)
       ELSE IF 10 * n < d
       THEN MetricScore(clampRound(108 * d - 580 * n, d, 50, 79), "Minor knee drift detected", issueFrames)
       ELSE MetricScore(clampRound(69 * d - 200 * n, d, 0, 49),
                        "Significant knee cave detected", issueFrames)

\* torso angle from the vertical at frame i, millidegrees
torsoAngle(fs, i) ==
    LET f == At(fs, i)
    IN angleFromVertical(L(f, "LEFT_SHOULDER"), L(f, "RIGHT_SHOULDER"),
                         L(f, "LEFT_HIP"), L(f, "RIGHT_HIP"))

\* scoreBackAngle taking 20 points, not 10, for an inconsistent torso angle
scoreBackAngleHarsher(fs, rep) ==
    LET idx == Range(rep.startFrame, rep.endFrame)
        cnt == Len(idx)
        angles == [k \in 1..cnt |-> torsoAngle(fs, idx[k])]
        tooFar(i) == torsoAngle(fs, i) > 60000
        issueFrames == SelectSeq(idx, tooFar)
        maxAngle == MaxOf({angles[k] : k \in 1..cnt})
        \* cnt^2 * variance in (0.1 degree)^2
        deci == [k \in 1..cnt |-> angles[k] \div 100]
        sum == SumSeq(deci)
        sumSq == SumSeq([k \in 1..cnt |-> deci[k] * deci[k]])
        varN2 == cnt * sumSq - sum * sum
        stdBelow10 == varN2 < 10000 * cnt * cnt
        stdAbove15 == varN2 > 22500 * cnt * cnt
        band == IF maxAngle <= 45000 /\ stdBelow10 THEN "good"
                ELSE IF maxAngle <= 60000 THEN "moderate" ELSE "excessive"
        \* the clamped band score as a fraction over 45000
        num == IF band = "good"
               THEN Max2(80 * 45000, Min2(100 * 45000, 100 * 45000 - 20 * maxAngle))
               ELSE IF band = "moderate"
               THEN Max2(50 * 45000, Min2(79 * 45000, 50 * 45000 + 87 * (60000 - maxAngle)))
               ELSE Max2(0, Min2(49 * 45000, 49 * 45000 - 90 * (maxAngle - 60000)))
        penalised == IF stdAbove15 THEN Max2(0, num - 20 * 45000) ELSE num
        base == IF band = "good" THEN "Good torso position"
                ELSE IF band = "moderate" THEN "Moderate forward lean"
                ELSE "Excessive forward lean"
        summary == IF stdAbove15 THEN base \o ". Torso angle was inconsistent throughout the rep"
                   ELSE base
    IN IF cnt = 0 THEN fixedScore(50, "yellow", "Could not assess back angle")
       ELSE MetricScore(mathRound(penalised, 45000), summary, issueFrames)

scoreBackAngle(fs, rep) ==
    LET idx == Range(rep.startFrame, rep.endFrame)
        cnt == Len(idx)
        angles == [k \in 1..cnt |-> torsoAngle(fs, idx[k])]
        tooFar(i) == torsoAngle(fs, i) > 60000
        issueFrames == SelectSeq(idx, tooFar)
        maxAngle == MaxOf({angles[k] : k \in 1..cnt})
        \* cnt^2 * variance in (0.1 degree)^2
        deci == [k \in 1..cnt |-> angles[k] \div 100]
        sum == SumSeq(deci)
        sumSq == SumSeq([k \in 1..cnt |-> deci[k] * deci[k]])
        varN2 == cnt * sumSq - sum * sum
        stdBelow10 == varN2 < 10000 * cnt * cnt
        stdAbove15 == varN2 > 22500 * cnt * cnt
        band == IF maxAngle <= 45000 /\ stdBelow10 THEN "good"
                ELSE IF maxAngle <= 60000 THEN "moderate" ELSE "excessive"
        \* the clamped band score as a fraction over 45000
        num == IF band = "good"
               THEN Max2(80 * 45000, Min2(100 * 45000, 100 * 45000 - 20 * maxAngle))
               ELSE IF band = "moderate"
               THEN Max2(50 * 45000, Min2(79 * 45000, 50 * 45000 + 87 * (60000 - maxAngle)))
               ELSE Max2(0, Min2(49 * 45000, 49 * 45000 - 90 * (maxAngle - 60000)))
        penalised == IF stdAbove15 THEN Max2(0, num - 10 * 45000) ELSE num
        base == IF band = "good" THEN "Good torso position"
                ELSE IF band = "moderate" THEN "Moderate forward lean"
                ELSE "Excessive forward lean"
        summary == IF stdAbove15 THEN base \o ". Torso angle was inconsistent throughout the rep"
                   ELSE base
    IN IF cnt = 0 THEN fixedScore(50, "yellow", "Could not assess back angle")
       ELSE MetricScore(mathRound(penalised, 45000), summary, issueFrames)

\* |x - mean| of doubled midpoint x positions, times the sample count; the deviation in
\* estimated inches is 9 * deviationN(..) / (250 * count)
deviationN(xs, k) == Abs(Len(xs) * xs[k] - SumSeq(xs))

scoreBarPath(fs, rep) ==
    LET idx == Range(rep.startFrame, rep.endFrame)
        cnt == Len(idx)
        xPositions == [k \in 1..cnt |->
                          L(At(fs, idx[k]), "LEFT_SHOULDER").x + L(At(fs, idx[k]), "RIGHT_SHOULDER").x]
        maxDeviation == MaxOf({deviationN(xPositions, k) : k \in 1..cnt})
        flagged(i) == 9 * deviationN(xPositions, i - rep.startFrame + 1) > 1000 * cnt
        issueFrames == SelectSeq(idx, flagged)
    IN IF cnt = 0 THEN fixedScore(50, "yellow", "Could not assess bar path")
       ELSE IF 9 * maxDeviation < 500 * cnt
       THEN MetricScore(clampRound(25000 * cnt - 90 * maxDeviation, 250 * cnt, 80, 100),
                        "Good bar path", issueFrames)
       ELSE IF 9 * maxDeviation < 1000 * cnt
       THEN MetricScore(clampRound(54000 * cnt - 261 * maxDeviation, 500 * cnt, 50, 79),
                        "Some horizontal drift in bar path", issueFrames)
       ELSE MetricScore(clampRound(17250 * cnt - 45 * maxDeviation, 250 * cnt, 0, 49),
                        "Excessive bar path deviation", issueFrames)

scoreSymmetry(fs, rep) ==
    LET f == At(fs, rep.bottomFrame)
        hipHeightDiff == Abs(L(f, "LEFT_HIP").y - L(f, "RIGHT_HIP").y)
        \* knee angles in 0.1 degree
        leftKneeAngle == angleBetween(L(f, "LEFT_HIP"), L(f, "LEFT_KNEE"), L(f, "LEFT_ANKLE")) \div 100
        rightKneeAngle == angleBetween(L(f, "RIGHT_HIP"), L(f, "RIGHT_KNEE"), L(f, "RIGHT_ANKLE")) \div 100
        kneeAngleDiff == Abs(leftKneeAngle - rightKneeAngle)
        \* kneeAngleDiff / avgKneeAngle in units of 0.001
        kneeAnglePct == IF leftKneeAngle + rightKneeAngle > 0
                        THEN (2000 * kneeAngleDiff) \div (leftKneeAngle + rightKneeAngle) ELSE 0
        shoulderHeightDiff == Abs(L(f, "LEFT_SHOULDER").y - L(f, "RIGHT_SHOULDER").y)
        \* 2 * bodyHeight
        bodyHeight2 == Abs((L(f, "LEFT_SHOULDER").y + L(f, "RIGHT_SHOULDER").y)
                           - (L(f, "LEFT_ANKLE").y + L(f, "RIGHT_ANKLE").y))
        \* avgAsymmetry = n / d
        n == IF bodyHeight2 > 0
             THEN 2000 * (hipHeightDiff + shoulderHeightDiff) + kneeAnglePct * bodyHeight2
             ELSE kneeAnglePct
        d == IF bodyHeight2 > 0 THEN 3000 * bodyHeight2 ELSE 3000
    IN IF 20 * n < d
       THEN MetricScore(clampRound(100 * d - 400 * n, d, 80, 100), "Good symmetry", <<>>)
       ELSE IF 10 * n < d
       THEN MetricScore(clampRound(108 * d - 580 * n, d, 50, 79),
                        "Minor asymmetry detected", <<rep.bottomFrame>>)
       ELSE MetricScore(clampRound(69 * d - 200 * n, d, 0, 49),
                        "Significant asymmetry", <<rep.bottomFrame>>)

\* floor(10 * toFixed(1)) of a duration in ticks, printed as d.d
toFixed1(ticks) ==
    LET tenths == mathRound(ticks, TicksPerSecond \div 10)
    IN ToString(tenths \div 10) \o "." \o ToString(tenths % 10)

RECURSIVE joinIssues(_)
joinIssues(issues) ==
    IF Len(issues) = 1 THEN Head(issues)
    ELSE Head(issues) \o ", " \o joinIssues(Tail(issues))

scoreButtWink(fs, rep) ==
    LET bottomIdx == rep.bottomFrame
        windowSize == Max2(1, (15 * (rep.endFrame - rep.startFrame)) \div 100)
        approachIdx == Max2(rep.startFrame, bottomIdx - windowSize * 2)
        approach == Range(approachIdx, Min2(bottomIdx - windowSize, rep.endFrame) - 1)
        approachSum == SumSeq([k \in 1..Len(approach) |-> torsoAngle(fs, approach[k])])
        bottomStart == Max2(rep.startFrame, bottomIdx - windowSize)
        bottomEnd == Min2(rep.endFrame, bottomIdx + windowSize)
        window == Range(bottomStart, bottomEnd)
        maxBottomAngle == MaxOf({torsoAngle(fs, window[k]) : k \in 1..Len(window)})
        \* angleIncrease in degrees = n / d
        n == Max2(0, Len(approach) * maxBottomAngle - approachSum)
        d == 1000 * Len(approach)
    IN IF Len(approach) = 0 \/ Len(window) = 0
       THEN fixedScore(75, "yellow", "Could not fully assess butt wink")
       ELSE IF n < 10 * d
       THEN MetricScore(clampRound(100 * d - 2 * n, d, 80, 100), "Good pelvic control", <<>>)
       ELSE IF n < 15 * d
       THEN MetricScore(clampRound(685 * d - 29 * n, 5 * d, 50, 79), "Moderate butt wink", window)
       ELSE MetricScore(clampRound(94 * d - 3 * n, d, 0, 49), "Significant butt wink", window)

scoreTempo(fs, rep) ==
    LET startTime == At(fs, rep.startFrame).timestamp
        bottomTime == At(fs, rep.bottomFrame).timestamp
        endTime == At(fs, rep.endFrame).timestamp
        eccentricDuration == bottomTime - startTime
        concentricDuration == endTime - bottomTime
        totalDuration == endTime - startTime
        sec == TicksPerSecond
        tooQuick == totalDuration < sec
        s1 == IF tooQuick THEN 30 ELSE 100
        i1 == IF tooQuick THEN <<"rep completed too quickly">> ELSE <<>>
        fastDown == eccentricDuration < sec
        slowDown == ~fastDown /\ ~(2 * eccentricDuration >= 3 * sec /\ eccentricDuration <= 4 * sec)
                    /\ eccentricDuration > 4 * sec
        s2 == IF fastDown THEN Min2(s1, 60) ELSE IF slowDown THEN Min2(s1, 70) ELSE s1
        i2 == IF fastDown THEN Append(i1, "descent too fast (< 1s)")
              ELSE IF slowDown THEN Append(i1, "descent very slow") ELSE i1
        fastUp == 10 * concentricDuration < 8 * sec
        slightlySlowUp == ~fastUp /\ 2 * concentricDuration > 5 * sec /\ concentricDuration <= 3 * sec
        slowUp == ~fastUp /\ ~slightlySlowUp /\ concentricDuration > 3 * sec
        s3 == IF fastUp THEN Min2(s2, 65) ELSE IF slightlySlowUp THEN Min2(s2, 75)
              ELSE IF slowUp THEN Min2(s2, 60) ELSE s2
        i3 == IF fastUp THEN Append(i2, "ascent very fast")
              ELSE IF slightlySlowUp THEN Append(i2, "ascent slightly slow")
              ELSE IF slowUp THEN Append(i2, "ascent too slow (> 3s)") ELSE i2
        \* ratio = eccentricDuration / concentricDuration
        badRatio == /\ eccentricDuration > 0 /\ concentricDuration > 0
                    /\ ~(10 * eccentricDuration >= 12 * concentricDuration
                         /\ 10 * eccentricDuration <= 25 * concentricDuration)
                    /\ eccentricDuration < concentricDuration
        score == IF badRatio THEN Min2(s3, 65) ELSE s3
        issues == IF badRatio THEN Append(i3, "concentric slower than eccentric") ELSE i3
        times == toFixed1(eccentricDuration) \o "s down, " \o toFixed1(concentricDuration) \o "s up"
        summary == IF issues = <<>> THEN "Good tempo - " \o times
                   ELSE "Tempo: " \o times \o " - " \o joinIssues(issues)
        issueFrames == IF tooQuick THEN Range(rep.startFrame, rep.endFrame) ELSE <<>>
    IN MetricScore(score, summary, issueFrames)

scoreHeelRise(fs, rep) ==
    LET heelY2(i) == L(At(fs, i), "LEFT_HEEL").y + L(At(fs, i), "RIGHT_HEEL").y
        avgHeelStart2 == heelY2(rep.startFrame)
        idx == Range(rep.startFrame, rep.endFrame)
        \* 2 * rise, units of 1/2000
        rise2(i) == avgHeelStart2 - heelY2(i)
        maxRise2 == MaxOf({0} \cup {rise2(idx[k]) : k \in 1..Len(idx)})
        lifted(i) == rise2(i) > 30
        issueFrames == SelectSeq(idx, lifted)
    IN IF maxRise2 < 30
       THEN MetricScore(clampRound(3000 - 20 * maxRise2, 30, 80, 100), "Good heel contact", issueFrames)
       ELSE IF maxRise2 < 60
       THEN MetricScore(clampRound(1500 + 29 * (60 - maxRise2), 30, 50, 79),
                        "Minor heel rise detected", issueFrames)
       ELSE MetricScore(clampRound(196 - (maxRise2 - 60), 4, 0, 49),
                        "Significant heel rise", issueFrames)

scoreStanceWidth(fs, rep) ==
    LET f == At(fs, rep.startFrame)
        a == Abs(L(f, "LEFT_ANKLE").x - L(f, "RIGHT_ANKLE").x)   \* ankleWidth
        h == Abs(L(f, "LEFT_HIP").x - L(f, "RIGHT_HIP").x)       \* hipWidth
        \* ratio = a / h, printed with one decimal
        tenths == mathRound(10 * a, h)
        nearest == Min2(Abs(10 * a - 12 * h), Abs(10 * a - 18 * h))
    IN IF h < 10
       THEN fixedScore(75, "yellow", "Could not assess stance width - hip width too small to measure")
       ELSE IF 10 * a >= 12 * h /\ 10 * a <= 18 * h
       THEN MetricScore(clampRound(300 * h - 100 * Abs(2 * a - 3 * h), 3 * h, 80, 100),
                        "Good stance width - ankles are " \o ToString(tenths \div 10) \o "."
                            \o ToString(tenths % 10) \o "x hip width", <<>>)
       ELSE IF (10 * a >= 11 * h /\ 10 * a < 12 * h) \/ (10 * a > 18 * h /\ a <= 2 * h)
       THEN MetricScore(clampRound(790 * h - 145 * nearest, 10 * h, 50, 79),
                        IF 10 * a < 12 * h THEN "Stance slightly narrow" ELSE "Stance slightly wide",
                        <<rep.startFrame>>)
       ELSE IF 10 * a < 11 * h
       THEN MetricScore(clampRound(49 * h - 20 * (11 * h - 10 * a), h, 0, 49),
                        "Stance too narrow", <<rep.startFrame>>)
       ELSE MetricScore(clampRound(49 * h - 100 * (a - 2 * h), h, 0, 49),
                        "Stance very wide", <<rep.startFrame>>)

scoreHipShift(fs, rep) ==
    LET idx == Range(rep.bottomFrame, rep.endFrame)
        cnt == Len(idx)
        xPositions == [k \in 1..cnt |->
                          L(At(fs, idx[k]), "LEFT_HIP").x + L(At(fs, idx[k]), "RIGHT_HIP").x]
        maxDeviation == MaxOf({deviationN(xPositions, k) : k \in 1..cnt})
        flagged(i) == 6 * deviationN(xPositions, i - rep.bottomFrame + 1) > 250 * cnt
        issueFrames == SelectSeq(idx, flagged)
    IN IF cnt < 2 THEN fixedScore(75, "yellow", "Could not assess hip shift")
       ELSE IF 6 * maxDeviation < 250 * cnt
       THEN MetricScore(clampRound(25000 * cnt - 120 * maxDeviation, 250 * cnt, 80, 100),
                        "Good hip stability", issueFrames)
       ELSE IF 9 * maxDeviation < 750 * cnt
       THEN MetricScore(clampRound(27000 * cnt - 174 * maxDeviation, 250 * cnt, 50, 79),
                        "Minor hip shift detected", issueFrames)
       ELSE MetricScore(clampRound(16000 * cnt - 45 * maxDeviation, 250 * cnt, 0, 49),
                        "Significant hip shift", issueFrames)

scoreKneeValgus(fs, rep) ==
    LET valgus(i) ==
            LET f == At(fs, i)
                \* doubled inward deviations
                leftInward2 == 2 * L(f, "LEFT_KNEE").x - (L(f, "LEFT_HIP").x + L(f, "LEFT_ANKLE").x)
                rightInward2 == (L(f, "RIGHT_HIP").x + L(f, "RIGHT_ANKLE").x) - 2 * L(f, "RIGHT_KNEE").x
                hipToAnkleY == Abs(L(f, "LEFT_HIP").y - L(f, "LEFT_ANKLE").y)
                leftAngle == IF hipToAnkleY > 0 THEN atan2Deg(Abs(leftInward2), 2 * hipToAnkleY) ELSE 0
                rightAngle == IF hipToAnkleY > 0 THEN atan2Deg(Abs(rightInward2), 2 * hipToAnkleY) ELSE 0
                leftValgus == IF leftInward2 > 0 THEN leftAngle ELSE 0
                rightValgus == IF rightInward2 > 0 THEN rightAngle ELSE 0
            IN Max2(leftValgus, rightValgus)
        active(i) == isActiveFrame(fs, rep, i)
        visited == SelectSeq(Range(rep.startFrame, rep.endFrame), active)
        maxValgusAngle == MaxOf({0} \cup {valgus(visited[k]) : k \in 1..Len(visited)})
        isIssue(i) == valgus(i) > 10000
        issueFrames == SelectSeq(visited, isIssue)
        score == angleBands(maxValgusAngle, 10000, 15000, 3)
    IN MetricScore(score,
                   IF maxValgusAngle < 10000 THEN "Good knee alignment"
                   ELSE IF maxValgusAngle < 15000 THEN "Minor knee valgus"
                   ELSE "Significant knee valgus",
                   issueFrames)

scoreKneeTravel(fs, rep) ==
    LET f == At(fs, rep.bottomFrame)
        leftTravel == L(f, "LEFT_KNEE").x - L(f, "LEFT_FOOT_INDEX").x
        rightTravel == L(f, "RIGHT_KNEE").x - L(f, "RIGHT_FOOT_INDEX").x
        maxTravel == Max2(Abs(leftTravel), Abs(rightTravel))
        \* travelInches = 9 * maxTravel / 125
    IN IF 9 * maxTravel < 250
       THEN MetricScore(clampRound(12500 - 90 * maxTravel, 125, 80, 100), "Good knee position", <<>>)
       ELSE IF 9 * maxTravel < 500
       THEN MetricScore(clampRound(27000 - 261 * maxTravel, 250, 50, 79),
                        "Moderate knee travel", <<rep.bottomFrame>>)
       ELSE MetricScore(clampRound(8625 - 45 * maxTravel, 125, 0, 49),
                        "Excessive forward knee travel", <<rep.bottomFrame>>)

\* index (1-based) of the first occurrence of v in s
RECURSIVE indexOf(_, _)
indexOf(s, v) == IF Head(s) = v THEN 1 ELSE 1 + indexOf(Tail(s), v)

\* scoreDepthConsistency that reports a single rep as borderline and flags its bottom
scoreDepthConsistencyBandsSingle(fs, allReps) ==
    LET cnt == Len(allReps)
        bottomsOf == [k \in 1..cnt |-> allReps[k].bottomFrame]
    IN IF cnt < 2 THEN MetricScore(79, "Minor depth variation", bottomsOf)
       ELSE MetricScore(100, "Excellent depth consistency", <<>>)

scoreDepthConsistency(fs, allReps) ==
    LET cnt == Len(allReps)
        \* doubled hip y at each bottom
        bottomDepths == [k \in 1..cnt |-> HipY2(At(fs, allReps[k].bottomFrame))]
        sum == SumSeq(bottomDepths)
        \* cnt^2 * variance
        varN2 == cnt * SumSeq([k \in 1..cnt |-> bottomDepths[k] * bottomDepths[k]]) - sum * sum
        \* cv = stdDev / mean = sqrt(varN2) / sum; root10 is 10 * sqrt(varN2), rounded down
        root10 == ISqrt(100 * varN2)
        zero == sum <= 0
        bottomsOf == [k \in 1..cnt |-> allReps[k].bottomFrame]
        shallowest == indexOf(bottomDepths, MinOf({bottomDepths[k] : k \in 1..cnt}))
    IN IF cnt < 2 THEN fixedScore(100, "green", "Single rep - consistency not applicable")
       ELSE IF zero \/ 2500 * varN2 < sum * sum
       THEN MetricScore(IF zero THEN 100 ELSE clampRound(100 * sum - 100 * root10, sum, 80, 100),
                        "Excellent depth consistency", <<>>)
       ELSE IF 400 * varN2 < sum * sum
       THEN MetricScore(clampRound(295 * sum - 290 * root10, 3 * sum, 50, 79),
                        "Minor depth variation", <<allReps[shallowest].bottomFrame>>)
       ELSE MetricScore(clampRound(74 * sum - 50 * root10, sum, 0, 49),
                        "Inconsistent depth", bottomsOf)

\* angle of the nose -> shoulder midpoint segment from the vertical, millidegrees
upperAngle(fs, i) ==
    LET f == At(fs, i)
        sx2 == L(f, "LEFT_SHOULDER").x + L(f, "RIGHT_SHOULDER").x
        sy2 == L(f, "LEFT_SHOULDER").y + L(f, "RIGHT_SHOULDER").y
    IN atan2Deg(Abs(2 * L(f, "NOSE").x - sx2), Abs(2 * L(f, "NOSE").y - sy2))

scoreThoracicRounding(fs, rep) ==
    LET rounding(i) == Max2(0, upperAngle(fs, i) - torsoAngle(fs, i))
        active(i) == isActiveFrame(fs, rep, i)
        visited == SelectSeq(Range(rep.startFrame, rep.endFrame), active)
        maxRounding == MaxOf({0} \cup {rounding(visited[k]) : k \in 1..Len(visited)})
        isIssue(i) == rounding(i) > 20000
        issueFrames == SelectSeq(visited, isIssue)
    IN MetricScore(angleBands(maxRounding, 15000, 25000, 2),
                   IF maxRounding < 15000 THEN "Good upper back position"
                   ELSE IF maxRounding < 25000 THEN "Moderate thoracic rounding"
                   ELSE "Significant thoracic rounding",
                   issueFrames)

scoreHeadPosition(fs, rep) ==
    LET active(i) == isActiveFrame(fs, rep, i)
        visited == SelectSeq(Range(rep.startFrame, rep.endFrame), active)
        maxDeviation == MaxOf({0} \cup {upperAngle(fs, visited[k]) : k \in 1..Len(visited)})
        isIssue(i) == upperAngle(fs, i) > 35000
        issueFrames == SelectSeq(visited, isIssue)
    IN MetricScore(angleBands(maxDeviation, 25000, 40000, 2),
                   IF maxDeviation < 25000 THEN "Good head position"
                   ELSE IF maxDeviation < 40000 THEN "Head position slightly off"
                   ELSE "Poor head position",
                   issueFrames)

scoreHipRiseRate(fs, rep) ==
    LET bottomIdx == rep.bottomFrame
        endIdx == rep.endFrame
        ascentFrames == endIdx - bottomIdx
        chunkSize == Max2(2, ascentFrames \div 5)
        step == Max2(1, chunkSize \div 2)
        \* the loop visits bottomIdx, bottomIdx + step, ... while below endIdx - chunkSize
        samples == [j \in 1..CeilDiv(endIdx - chunkSize - bottomIdx, step) |-> bottomIdx + (j - 1) * step]
        shoulderY2(i) == L(At(fs, i), "LEFT_SHOULDER").y + L(At(fs, i), "RIGHT_SHOULDER").y
        hipRise2(i) == HipY2(At(fs, i)) - HipY2(At(fs, Min2(i + chunkSize, endIdx)))
        shoulderRise2(i) == shoulderY2(i) - shoulderY2(Min2(i + chunkSize, endIdx))
        rated(i) == shoulderRise2(i) > 2
        goodMorning(i) == ~rated(i) /\ hipRise2(i) > 20
        maxRateRatio ==
            FracMax({<<0, 1>>}
                    \cup {<<hipRise2(samples[j]), shoulderRise2(samples[j])>> :
                             j \in {q \in 1..Len(samples) : rated(samples[q])}}
                    \cup {<<3, 1>> : j \in {q \in 1..Len(samples) : goodMorning(samples[q])}})
        n == maxRateRatio[1]
        d == maxRateRatio[2]
        isIssue(i) == (rated(i) /\ 2 * hipRise2(i) > 3 * shoulderRise2(i)) \/ goodMorning(i)
        issueFrames == SelectSeq(samples, isIssue)
    IN IF ascentFrames < 3
       THEN fixedScore(75, "yellow", "Could not assess hip rise rate - ascent too short")
       ELSE IF 10 * n < 13 * d
       THEN MetricScore(clampRound(1300 * d - 200 * n, 13 * d, 80, 100), "Good ascent mechanics", issueFrames)
       ELSE IF 10 * n < 18 * d
       THEN MetricScore(clampRound(772 * d - 290 * n, 5 * d, 50, 79),
                        "Hips rising slightly ahead of chest", issueFrames)
       ELSE MetricScore(clampRound(76 * d - 15 * n, d, 0, 49), "Good-morning pattern", issueFrames)

\* hip velocity between frames i and i + 1 in units of 0.0001 per second
hipVelocity(fs, i) ==
    (30000 * (HipY2(At(fs, i + 1)) - HipY2(At(fs, i)))) \div (At(fs, i + 1).timestamp - At(fs, i).timestamp)

scoreReversalControl(fs, rep) ==
    LET bottomIdx == rep.bottomFrame
        windowSize == Max2(2, (rep.endFrame - rep.startFrame) \div 10)
        preStart == Max2(rep.startFrame, bottomIdx - windowSize)
        postEnd == Min2(rep.endFrame, bottomIdx + windowSize)
        forward(i) == At(fs, i + 1).timestamp - At(fs, i).timestamp > 0
        pre == SelectSeq(Range(preStart, bottomIdx - 1), forward)
        post == SelectSeq(Range(bottomIdx, postEnd - 1), forward)
        preSum == SumSeq([k \in 1..Len(pre) |-> hipVelocity(fs, pre[k])])
        postSum == SumSeq([k \in 1..Len(post) |-> hipVelocity(fs, post[k])])
        \* velocityChange = |avgPreVel - avgPostVel| = n / d
        n == Abs(preSum * Len(post) - postSum * Len(pre))
        d == 10000 * Len(pre) * Len(post)
    IN IF postEnd - preStart < 3 THEN fixedScore(75, "yellow", "Could not assess reversal control")
       ELSE IF Len(pre) = 0 \/ Len(post) = 0
       THEN fixedScore(75, "yellow", "Could not assess reversal control")
       ELSE IF 10 * n < 3 * d
       THEN MetricScore(clampRound(300 * d - 200 * n, 3 * d, 80, 100), "Good reversal control", <<>>)
       ELSE IF 10 * n < 6 * d
       THEN MetricScore(clampRound(324 * d - 290 * n, 3 * d, 50, 79),
                        "Moderate bounce at bottom", <<bottomIdx>>)
       ELSE MetricScore(clampRound(67 * d - 30 * n, d, 0, 49),
                        "Hard bounce at bottom", Range(preStart, postEnd))

scoreStanceWidthShift(fs, rep) ==
    LET ankleWidth(i) == Abs(L(At(fs, i), "LEFT_ANKLE").x - L(At(fs, i), "RIGHT_ANKLE").x)
        startAnkleWidth == ankleWidth(rep.startFrame)
        idx == Range(rep.startFrame, rep.endFrame)
        \* shiftPct = shift(i) / startAnkleWidth
        shift(i) == Abs(ankleWidth(i) - startAnkleWidth)
        maxShift == MaxOf({0} \cup {shift(idx[k]) : k \in 1..Len(idx)})
        moved(i) == 10 * shift(i) > startAnkleWidth
        issueFrames == SelectSeq(idx, moved)
    IN IF startAnkleWidth < 10 THEN fixedScore(75, "yellow", "Could not assess stance width shift")
       ELSE IF 100 * maxShift < 8 * startAnkleWidth
       THEN MetricScore(clampRound(100 * startAnkleWidth - 250 * maxShift, startAnkleWidth, 80, 100),
                        "Good stance stability", issueFrames)
       ELSE IF 100 * maxShift < 15 * startAnkleWidth
       THEN MetricScore(clampRound(785 * startAnkleWidth - 2900 * maxShift, 7 * startAnkleWidth, 50, 79),
                        "Minor stance shift", Append(issueFrames, rep.bottomFrame))
       ELSE MetricScore(clampRound(79 * startAnkleWidth - 200 * maxShift, startAnkleWidth, 0, 49),
                        "Significant stance shift", issueFrames)

-----------------------------------------------------------------------------
(* Aggregation and the main analysis *)

\* the element at 0-based position p of [...scores].sort((a, b) => a.score - b.score), a stable sort
sortedAt(scores, p) ==
    LET before(k) == Cardinality({j \in 1..Len(scores) :
                        \/ scores[j].score < scores[k].score
                        \/ (scores[j].score = scores[k].score /\ j < k)})
    IN scores[CHOOSE k \in 1..Len(scores) : before(k) = p]

RECURSIVE flatMapIssueFrames(_)
flatMapIssueFrames(scores) ==
    IF scores = <<>> THEN <<>>
    ELSE Head(scores).issueFrames \o flatMapIssueFrames(Tail(scores))

\* averageMetricScores with the mean truncated instead of rounded
averageMetricScoresTruncated(scores) ==
    LET cnt == Len(scores)
        avgScore == FloorDiv(SumSeq([k \in 1..cnt |-> scores[k].score]), cnt)
        medianSummary == sortedAt(scores, cnt \div 2).summary
        goodReps == Cardinality({k \in 1..cnt : scores[k].score >= 80})
        summary == IF cnt > 1
                   THEN medianSummary \o " (" \o ToString(goodReps) \o "/" \o ToString(cnt)
                            \o " reps rated good)"
                   ELSE medianSummary
    IN IF cnt = 0 THEN fixedScore(0, "red", "No reps detected")
       ELSE [score |-> avgScore, rating |-> getRating(avgScore), summary |-> summary,
             issueFrames |-> flatMapIssueFrames(scores), confidence |-> scores[1].confidence]

\* averageMetricScores with the summary of the lower of the two middle reps
averageMetricScoresLowerMedian(scores) ==
    LET cnt == Len(scores)
        avgScore == mathRound(SumSeq([k \in 1..cnt |-> scores[k].score]), cnt)
        medianSummary == sortedAt(scores, (cnt - 1) \div 2).summary
        goodReps == Cardinality({k \in 1..cnt : scores[k].score >= 80})
        summary == IF cnt > 1
                   THEN medianSummary \o " (" \o ToString(goodReps) \o "/" \o ToString(cnt)
                            \o " reps rated good)"
                   ELSE medianSummary
    IN IF cnt = 0 THEN fixedScore(0, "red", "No reps detected")
       ELSE [score |-> avgScore, rating |-> getRating(avgScore), summary |-> summary,
             issueFrames |-> flatMapIssueFrames(scores), confidence |-> scores[1].confidence]

averageMetricScores(scores) ==
    LET cnt == Len(scores)
        avgScore == mathRound(SumSeq([k \in 1..cnt |-> scores[k].score]), cnt)
        medianSummary == sortedAt(scores, cnt \div 2).summary
        goodReps == Cardinality({k \in 1..cnt : scores[k].score >= 80})
        summary == IF cnt > 1
                   THEN medianSummary \o " (" \o ToString(goodReps) \o "/" \o ToString(cnt)
                            \o " reps rated good)"
                   ELSE medianSummary
    IN IF cnt = 0 THEN fixedScore(0, "red", "No reps detected")
       ELSE [score |-> avgScore, rating |-> getRating(avgScore), summary |-> summary,
             issueFrames |-> flatMapIssueFrames(scores), confidence |-> scores[1].confidence]

NoRepsError == "Could not detect any squat reps. Make sure your video shows at least one full squat repetition."

\* 0.005 in the doubled units of HipY2
minHipRange2 == 10

\* repsToAnalyze without the hip-range floor: any clip without a peak is scored as one rep
repsToAnalyzeNoFloor(fs) ==
    LET detectedReps == detectReps(fs)
        hipYValues == [k \in 1..Len(fs) |-> HipY2(fs[k])]
        peakY == MaxOf({hipYValues[k] : k \in 1..Len(fs)})
    IN IF Len(detectedReps) > 0 THEN detectedReps
       ELSE IF Len(fs) = 0 THEN <<>>
       ELSE << [startFrame |-> 0, endFrame |-> Len(fs) - 1,
                bottomFrame |-> indexOf(hipYValues, peakY) - 1] >>

\* the reps analyzeSquat scores: the detected ones, else the whole clip as one rep;
\* << >> when analyzeSquat throws NoRepsError
repsToAnalyze(fs) ==
    LET detectedReps == detectReps(fs)
        hipYValues == [k \in 1..Len(fs) |-> HipY2(fs[k])]
        range2 == MaxOf({hipYValues[k] : k \in 1..Len(fs)}) - MinOf({hipYValues[k] : k \in 1..Len(fs)})
        peakY == MaxOf({hipYValues[k] : k \in 1..Len(fs)})
        bottomIdx == indexOf(hipYValues, peakY) - 1
    IN IF Len(detectedReps) > 0 THEN detectedReps
       \* Math.min() and Math.max() of no values give a range of -Infinity
       ELSE IF Len(fs) = 0 THEN <<>>
       ELSE IF range2 < minHipRange2 THEN <<>>
       ELSE << [startFrame |-> 0, endFrame |-> Len(fs) - 1, bottomFrame |-> bottomIdx] >>

\* the throw of analyzeSquat: no rep detected and a hip range below the floor
analyzeSquatThrows(fs) == repsToAnalyze(fs) = <<>>

\* one entry of the reps.map callback, before confidence stamping
scoreRep(fs, rep, idx, depthConsistencyScore) ==
    [repNumber |-> idx,
     startFrame |-> rep.startFrame,
     endFrame |-> rep.endFrame,
     bottomFrame |-> rep.bottomFrame,
     depth |-> scoreDepth(fs, rep),
     kneeTracking |-> scoreKneeTracking(fs, rep),
     backAngle |-> scoreBackAngle(fs, rep),
     barPath |-> scoreBarPath(fs, rep),
     symmetry |-> scoreSymmetry(fs, rep),
     buttWink |-> scoreButtWink(fs, rep),
     tempo |-> scoreTempo(fs, rep),
     heelRise |-> scoreHeelRise(fs, rep),
     stanceWidth |-> scoreStanceWidth(fs, rep),
     hipShift |-> scoreHipShift(fs, rep),
     kneeValgus |-> scoreKneeValgus(fs, rep),
     kneeTravel |-> scoreKneeTravel(fs, rep),
     depthConsistency |-> depthConsistencyScore,
     thoracicRounding |-> scoreThoracicRounding(fs, rep),
     hipRiseRate |-> scoreHipRiseRate(fs, rep),
     reversalControl |-> scoreReversalControl(fs, rep),
     stanceWidthShift |-> scoreStanceWidthShift(fs, rep),
     headPosition |-> scoreHeadPosition(fs, rep)]

\* no stamping: every MetricScore keeps the confidence its scorer set
stampConfidenceKept(repData, angle) == repData

\* the stamping loop over metricKeys: repData[key].confidence = getMetricConfidence(key, angle)
stampConfidence(repData, angle) ==
    [f \in DOMAIN repData |->
        IF f \in MetricSet
        THEN [repData[f] EXCEPT !.confidence = getMetricConfidence(f, angle)]
        ELSE repData[f]]

\* The same depthConsistencyScore object is put into every rep and into overall, so the
\* stamping loop of any rep writes the confidence that all of them (and overall) show.
sharedDepthConsistency(fs, reps, angle) ==
    LET depthConsistencyScore == scoreDepthConsistency(fs, reps)
    IN IF Len(reps) > 0
       THEN [depthConsistencyScore EXCEPT
                !.confidence = getMetricConfidence("depthConsistency", angle)]
       ELSE depthConsistencyScore

overallOf(reps, depthConsistencyScore) ==
    [m \in MetricSet |->
        IF m = "depthConsistency" THEN depthConsistencyScore
        ELSE averageMetricScores([k \in 1..Len(reps) |-> reps[k][m]])]

\* the value analyzeSquat returns for the scored reps
analysisResult(reps, depthConsistencyScore, exerciseType, camAngle) ==
    [threw |-> FALSE,
     reps |-> reps,
     overall |-> overallOf(reps, depthConsistencyScore),
     repCount |-> Len(reps),
     exerciseType |-> exerciseType,
     cameraAngle |-> camAngle]

\* the reps.map call: every rep scored with the shared depthConsistencyScore and stamped
scoreReps(fs, toAnalyze, depthConsistencyScore, angle) ==
    [k \in 1..Len(toAnalyze) |->
        stampConfidence(scoreRep(fs, toAnalyze[k], k, depthConsistencyScore), angle)]

\* analyzeReps with overall.depthConsistency taken from a copy made before the stamping
analyzeRepsCopied(fs, toAnalyze, angle, exerciseType, camAngle) ==
    analysisResult(scoreReps(fs, toAnalyze, sharedDepthConsistency(fs, toAnalyze, angle), angle),
                   scoreDepthConsistency(fs, toAnalyze), exerciseType, camAngle)

\* analyzeSquat from `const angle = cameraAngle ?? "uncertain"` on
analyzeReps(fs, toAnalyze, angle, exerciseType, camAngle) ==
    analysisResult(scoreReps(fs, toAnalyze, sharedDepthConsistency(fs, toAnalyze, angle), angle),
                   sharedDepthConsistency(fs, toAnalyze, angle), exerciseType, camAngle)

\* analyzeSquat(frames, exerciseType, cameraAngle): threw = TRUE stands for the thrown Error
analyzeSquat(fs, exerciseType, camAngle) ==
    IF analyzeSquatThrows(fs)
    THEN [threw |-> TRUE, error |-> NoRepsError]
    ELSE analyzeReps(fs, repsToAnalyze(fs),
                     IF camAngle = "undefined" THEN "uncertain" ELSE camAngle,
                     exerciseType, camAngle)

-----------------------------------------------------------------------------
(* Trimming *)

\* 2.5 seconds in ticks
BUFFER_TICKS == 15000

\* trimFramesToReps with the buffer rounded down instead of up
trimFramesToRepsFloorBuffer(fs) ==
    LET reps == detectReps(fs)
        n == Len(fs)
        span == fs[n].timestamp - fs[1].timestamp
        bufferFrames == IF n > 1 THEN FloorDiv(BUFFER_TICKS * (n - 1), span) ELSE 75
        trimStart == Max2(0, reps[1].startFrame - bufferFrames)
        trimEnd == Min2(n - 1, reps[Len(reps)].endFrame + bufferFrames)
    IN IF n = 0 THEN [frames |-> fs, startTimestamp |-> 0, endTimestamp |-> 0]
       ELSE IF Len(reps) = 0
       THEN [frames |-> fs, startTimestamp |-> fs[1].timestamp, endTimestamp |-> fs[n].timestamp]
       ELSE [frames |-> SubSeq(fs, trimStart + 1, trimEnd + 1),
             startTimestamp |-> At(fs, trimStart).timestamp,
             endTimestamp |-> At(fs, trimEnd).timestamp]

trimFramesToReps(fs) ==
    LET reps == detectReps(fs)
        n == Len(fs)
        firstRep == reps[1]
        lastRep == reps[Len(reps)]
        \* Math.ceil(BUFFER_SECONDS / avgFrameDuration), avgFrameDuration = span / (n - 1)
        span == fs[n].timestamp - fs[1].timestamp
        bufferFrames == IF n > 1 THEN CeilDiv(BUFFER_TICKS * (n - 1), span) ELSE 75
        trimStart == Max2(0, firstRep.startFrame - bufferFrames)
        trimEnd == Min2(n - 1, lastRep.endFrame + bufferFrames)
    IN IF n = 0 THEN [frames |-> fs, startTimestamp |-> 0, endTimestamp |-> 0]
       ELSE IF Len(reps) = 0
       THEN [frames |-> fs, startTimestamp |-> fs[1].timestamp, endTimestamp |-> fs[n].timestamp]
       ELSE [frames |-> SubSeq(fs, trimStart + 1, trimEnd + 1),
             startTimestamp |-> At(fs, trimStart).timestamp,
             endTimestamp |-> At(fs, trimEnd).timestamp]

-----------------------------------------------------------------------------
(* Pose extraction: classification and gating in processVideo.  A video is *)
(* the sequence of its sampled instants; each sample carries the landmarks *)
(* the landmarker and the smoothing filters deliver for it, or no pose.    *)

shouldersVisible(f) ==
    L(f, "LEFT_SHOULDER").visibility >= 30 /\ L(f, "RIGHT_SHOULDER").visibility >= 30

\* the vote of one sample frame whose shoulders are visible
angleVote(f) ==
    LET shoulderSpread == Abs(L(f, "LEFT_SHOULDER").x - L(f, "RIGHT_SHOULDER").x)
        faceVis3 == L(f, "NOSE").visibility + L(f, "LEFT_EYE").visibility
                        + L(f, "RIGHT_EYE").visibility
        leftVis3 == L(f, "LEFT_SHOULDER").visibility + L(f, "LEFT_ELBOW").visibility
                        + L(f, "LEFT_WRIST").visibility
        rightVis3 == L(f, "RIGHT_SHOULDER").visibility + L(f, "RIGHT_ELBOW").visibility
                        + L(f, "RIGHT_WRIST").visibility
    IN IF shoulderSpread < 80
       THEN (IF leftVis3 >= rightVis3 THEN "left_side" ELSE "right_side")
       ELSE IF shoulderSpread > 200
       THEN (IF 2 * faceVis3 > 300 THEN "frontal" ELSE "rear")
       ELSE "diagonal"

\* a variant of detectCameraAngle that accepts any label with more than half of the votes
detectCameraAngleBareMajority(fs) ==
    LET n == Len(fs)
        stable(i) == \A j \in i..(i + 4) : shouldersVisible(At(fs, j))
        starts == {i \in 0..(n - 5) : stable(i)}
        stableStart == MinOf(starts)
        sampleEnd == Min2(n, stableStart + 15)
        sampleFrames == SubSeq(fs, stableStart + 1, sampleEnd)
        valid == SelectSeq(sampleFrames, shouldersVisible)
        votes == [k \in 1..Len(valid) |-> angleVote(valid[k])]
        count(a) == Cardinality({k \in 1..Len(votes) : votes[k] = a})
        bestAngle == votes[CHOOSE k \in 1..Len(votes) :
                            /\ \A j \in 1..Len(votes) : count(votes[j]) <= count(votes[k])
                            /\ \A j \in 1..(k - 1) : count(votes[j]) < count(votes[k])]
        bestCount == count(bestAngle)
    IN IF n < 5 THEN "uncertain"
       ELSE IF starts = {} THEN "uncertain"
       ELSE IF Len(votes) = 0 THEN "uncertain"
       ELSE IF 2 * bestCount > Len(votes) THEN bestAngle
       ELSE "uncertain"

detectCameraAngle(fs) ==
    LET n == Len(fs)
        stable(i) == \A j \in i..(i + 4) : shouldersVisible(At(fs, j))
        starts == {i \in 0..(n - 5) : stable(i)}
        stableStart == MinOf(starts)
        sampleEnd == Min2(n, stableStart + 15)
        sampleFrames == SubSeq(fs, stableStart + 1, sampleEnd)
        valid == SelectSeq(sampleFrames, shouldersVisible)
        votes == [k \in 1..Len(valid) |-> angleVote(valid[k])]
        count(a) == Cardinality({k \in 1..Len(votes) : votes[k] = a})
        \* the Map is visited in insertion order and only a larger count replaces the best
        bestAngle == votes[CHOOSE k \in 1..Len(votes) :
                            /\ \A j \in 1..Len(votes) : count(votes[j]) <= count(votes[k])
                            /\ \A j \in 1..(k - 1) : count(votes[j]) < count(votes[k])]
        bestCount == count(bestAngle)
    IN IF n < 5 THEN "uncertain"
       ELSE IF starts = {} THEN "uncertain"
       ELSE IF Len(votes) = 0 THEN "uncertain"
       ELSE IF 5 * bestCount >= 3 * Len(votes) THEN bestAngle
       ELSE "uncertain"

\* a variant of detectExerciseType without the guard on sequences of fewer than 4 frames
detectExerciseTypeAnyLength(fs) ==
    LET hipsSeen(f) == ~(L(f, "LEFT_HIP").visibility < 30 \/ L(f, "RIGHT_HIP").visibility < 30)
        used == SelectSeq(fs, hipsSeen)
        hipY2s == {HipY2(used[k]) : k \in 1..Len(used)}
        hipX2s == {L(used[k], "LEFT_HIP").x + L(used[k], "RIGHT_HIP").x : k \in 1..Len(used)}
        leftAngles == {angleBetween(L(used[k], "LEFT_HIP"), L(used[k], "LEFT_KNEE"),
                                    L(used[k], "LEFT_ANKLE")) :
                          k \in {j \in 1..Len(used) :
                                    /\ L(used[j], "LEFT_KNEE").visibility > 30
                                    /\ L(used[j], "LEFT_ANKLE").visibility > 30}}
        rightAngles == {angleBetween(L(used[k], "RIGHT_HIP"), L(used[k], "RIGHT_KNEE"),
                                     L(used[k], "RIGHT_ANKLE")) :
                          k \in {j \in 1..Len(used) :
                                    /\ L(used[j], "RIGHT_KNEE").visibility > 30
                                    /\ L(used[j], "RIGHT_ANKLE").visibility > 30}}
        kneeAngles == leftAngles \cup rightAngles
        hipYRange2 == MaxOf(hipY2s) - MinOf(hipY2s)
        hipXRange2 == MaxOf(hipX2s) - MinOf(hipX2s)
        kneeAngleRange == IF kneeAngles # {} THEN MaxOf(kneeAngles) - MinOf(kneeAngles) ELSE 0
    IN IF Len(used) < 2 THEN "unknown"
       ELSE IF hipYRange2 > 200 /\ kneeAngleRange > 30000 THEN "squat"
       ELSE IF hipYRange2 > 160 /\ hipXRange2 > 100 /\ kneeAngleRange < 30000 THEN "deadlift"
       ELSE IF hipYRange2 > 100 THEN "squat"
       ELSE "other"

detectExerciseType(fs) ==
    LET hipsSeen(f) == ~(L(f, "LEFT_HIP").visibility < 30 \/ L(f, "RIGHT_HIP").visibility < 30)
        used == SelectSeq(fs, hipsSeen)
        hipY2s == {HipY2(used[k]) : k \in 1..Len(used)}
        hipX2s == {L(used[k], "LEFT_HIP").x + L(used[k], "RIGHT_HIP").x : k \in 1..Len(used)}
        leftAngles == {angleBetween(L(used[k], "LEFT_HIP"), L(used[k], "LEFT_KNEE"),
                                    L(used[k], "LEFT_ANKLE")) :
                          k \in {j \in 1..Len(used) :
                                    /\ L(used[j], "LEFT_KNEE").visibility > 30
                                    /\ L(used[j], "LEFT_ANKLE").visibility > 30}}
        rightAngles == {angleBetween(L(used[k], "RIGHT_HIP"), L(used[k], "RIGHT_KNEE"),
                                     L(used[k], "RIGHT_ANKLE")) :
                          k \in {j \in 1..Len(used) :
                                    /\ L(used[j], "RIGHT_KNEE").visibility > 30
                                    /\ L(used[j], "RIGHT_ANKLE").visibility > 30}}
        kneeAngles == leftAngles \cup rightAngles
        hipYRange2 == MaxOf(hipY2s) - MinOf(hipY2s)
        hipXRange2 == MaxOf(hipX2s) - MinOf(hipX2s)
        kneeAngleRange == IF kneeAngles # {} THEN MaxOf(kneeAngles) - MinOf(kneeAngles) ELSE 0
    IN IF Len(fs) < 4 THEN "unknown"
       ELSE IF Len(used) < 2 THEN "unknown"
       ELSE IF hipYRange2 > 200 /\ kneeAngleRange > 30000 THEN "squat"
       ELSE IF hipYRange2 > 160 /\ hipXRange2 > 100 /\ kneeAngleRange < 30000 THEN "deadlift"
       ELSE IF hipYRange2 > 100 THEN "squat"
       ELSE "other"

NoPersonError == "Could not detect a person in the video. Make sure your full body is visible and the lighting is good."
LowVisibilityError == "Please film from the side for best results. The camera angle made it difficult to accurately detect your pose."
DeadliftError == "This looks like a deadlift, not a squat. RepPolice currently only supports squat analysis. Deadlift support coming soon!"
OtherExerciseError == "Could not identify this as a squat exercise. Make sure the video shows a clear squat movement with visible hip and knee flexion."
VideoLoadError == "Failed to load video for analysis"

KEY_LANDMARKS == <<"LEFT_HIP", "RIGHT_HIP", "LEFT_KNEE", "RIGHT_KNEE", "LEFT_ANKLE", "RIGHT_ANKLE">>

\* frames.length * KEY_LANDMARKS.length * avgVisibility, in percent
visibilitySum(fs) ==
    SumSeq([k \in 1..Len(fs) |->
              SumSeq([j \in 1..Len(KEY_LANDMARKS) |-> L(fs[k], KEY_LANDMARKS[j]).visibility])])

\* the frames pushed by the extraction loop: the samples in which a pose was found
extractFrames(samples) ==
    LET found(smp) == smp.detected
        kept == SelectSeq(samples, found)
    IN [k \in 1..Len(kept) |-> [timestamp |-> kept[k].timestamp, landmarks |-> kept[k].landmarks]]

\* processVideo with the exercise-type gates ahead of the visibility gate
processVideoTypeGateFirst(samples) ==
    LET fs == extractFrames(samples)
        cameraAngle == detectCameraAngle(fs)
        exerciseType == detectExerciseType(fs)
    IN IF Len(fs) = 0 THEN [threw |-> TRUE, error |-> NoPersonError]
       ELSE IF exerciseType = "deadlift" THEN [threw |-> TRUE, error |-> DeadliftError]
       ELSE IF exerciseType = "other" THEN [threw |-> TRUE, error |-> OtherExerciseError]
       ELSE IF visibilitySum(fs) < 30 * Len(fs) * Len(KEY_LANDMARKS)
       THEN [threw |-> TRUE, error |-> LowVisibilityError]
       ELSE [threw |-> FALSE, frames |-> fs, frameCount |-> Len(fs),
             cameraAngle |-> cameraAngle, exerciseType |-> exerciseType]

\* processVideo from the end of the extraction loop on; threw = TRUE stands for the thrown Error
processVideo(samples) ==
    LET fs == extractFrames(samples)
        cameraAngle == detectCameraAngle(fs)
        exerciseType == detectExerciseType(fs)
    IN IF Len(fs) = 0 THEN [threw |-> TRUE, error |-> NoPersonError]
       ELSE IF visibilitySum(fs) < 30 * Len(fs) * Len(KEY_LANDMARKS)
       THEN [threw |-> TRUE, error |-> LowVisibilityError]
       ELSE IF exerciseType = "deadlift" THEN [threw |-> TRUE, error |-> DeadliftError]
       ELSE IF exerciseType = "other" THEN [threw |-> TRUE, error |-> OtherExerciseError]
       ELSE [threw |-> FALSE, frames |-> fs, frameCount |-> Len(fs),
             cameraAngle |-> cameraAngle, exerciseType |-> exerciseType]

\* index in the untrimmed sequence of the first frame trimFramesToReps keeps
trimStartIdx(fs) ==
    LET kept == trimFramesToReps(fs).frames
    IN IF Len(fs) = 0 \/ Len(kept) = 0 THEN 0
       ELSE CHOOSE i \in 0..(Len(fs) - 1) : At(fs, i).timestamp = kept[1].timestamp

\* rebaseReps moving the rep boundaries only: the issueFrames keep indexing the untrimmed
\* sequence
rebaseRepsBoundariesOnly(reps, offset) ==
    [k \in 1..Len(reps) |->
        [reps[k] EXCEPT !.startFrame = @ - offset,
                        !.endFrame = @ - offset,
                        !.bottomFrame = @ - offset]]

\* rep indices re-expressed relative to the trimmed sequence: the boundaries of every rep
\* and the issueFrames of each of its MetricScores
rebaseReps(reps, offset) ==
    [k \in 1..Len(reps) |->
        [f \in DOMAIN reps[k] |->
            IF f \in {"startFrame", "endFrame", "bottomFrame"} THEN reps[k][f] - offset
            ELSE IF f \in MetricSet
            THEN [reps[k][f] EXCEPT !.issueFrames = [j \in 1..Len(@) |-> @[j] - offset]]
            ELSE reps[k][f]]]

-----------------------------------------------------------------------------
(* Signal conditioning: the One-Euro filters and the outlier rejection of  *)
(* processVideo.  The filters compute in binary floating point.  A number  *)
(* is modelled as <<m, e>>, the value m * 2^e, whose significand m has     *)
(* MantissaBits bits (zero is <<0, 0>>); every operation rounds its exact  *)
(* result to the nearest such number, ties to even, as the arithmetic of   *)
(* the language does with 53 bits.                                         *)

\* bits of the significand
MantissaBits == 10

RECURSIVE BitLen(_)
\* number of binary digits of n >= 0
BitLen(n) == IF n = 0 THEN 0 ELSE 1 + BitLen(n \div 2)

Sign(m) == IF m < 0 THEN -1 ELSE 1

\* m * 2^e rounded to MantissaBits bits, ties to even
Round(m, e) ==
    LET a == Abs(m)
        k == BitLen(a) - MantissaBits
    IN IF m = 0 THEN <<0, 0>>
       ELSE IF k <= 0 THEN <<m * 2^(-k), e + k>>
       ELSE LET q == a \div 2^k
                r == a % 2^k
                up == 2 * r > 2^k \/ (2 * r = 2^k /\ q % 2 = 1)
                q2 == IF up THEN q + 1 ELSE q
            IN IF q2 = 2^MantissaBits
               THEN <<Sign(m) * 2^(MantissaBits - 1), e + k + 1>>
               ELSE <<Sign(m) * q2, e + k>>

fNeg(a) == <<-a[1], a[2]>>

fAbs(a) == <<Abs(a[1]), a[2]>>

fMul(a, b) == Round(a[1] * b[1], a[2] + b[2])

fAdd(a, b) ==
    IF a[1] = 0 THEN b
    ELSE IF b[1] = 0 THEN a
    ELSE LET hi == IF a[2] >= b[2] THEN a ELSE b
             lo == IF a[2] >= b[2] THEN b ELSE a
             d == hi[2] - lo[2]
         IN \* a term below a quarter of the last place of the other does not change it
            IF d >= MantissaBits + 2 THEN hi ELSE Round(hi[1] * 2^d + lo[1], lo[2])

fSub(a, b) == fAdd(a, fNeg(b))

\* the quotient to MantissaBits + 2 bits and a sticky bit, then rounded once
fDiv(a, b) ==
    LET num == Abs(a[1]) * 2^(MantissaBits + 2)
        q == num \div Abs(b[1])
        sticky == IF num % Abs(b[1]) = 0 THEN 0 ELSE 1
    IN Round(Sign(a[1]) * Sign(b[1]) * (2 * q + sticky), a[2] - b[2] - MantissaBits - 3)

\* a <= b
fLeq(a, b) ==
    LET e == Min2(a[2], b[2])
    IN a[1] * 2^(a[2] - e) <= b[1] * 2^(b[2] - e)

\* the number an integer literal denotes (exact below 2^MantissaBits)
fInt(n) == Round(n, 0)

\* the number nearest to the decimal n / d
fRat(n, d) == fDiv(fInt(n), fInt(d))

\* a coordinate of n thousandths, as the landmarker delivers it
fCoord(n) == fRat(n, 1000)

\* Math.PI
PI == fRat(355, 113)

\* new OneEuroFilter(minCutoff, beta): dCutoff keeps its default 1.0
OneEuroFilter(minCutoff, beta) ==
    [minCutoff |-> minCutoff, beta |-> beta, dCutoff |-> fInt(1), xPrev |-> fInt(0),
     dxPrev |-> fInt(0), tPrev |-> fInt(0), initialized |-> FALSE]

\* r = 2 * Math.PI * cutoff * dt, evaluated left to right; r / (r + 1)
smoothingFactor(cutoff, dt) ==
    LET r == fMul(fMul(fMul(fInt(2), PI), cutoff), dt)
    IN fDiv(r, fAdd(r, fInt(1)))

\* a variant of filter that stores the timestamp of a sample it does not accept
filterStampsAlways(f, x, t) ==
    IF ~f.initialized
    THEN [out |-> x, filter |-> [f EXCEPT !.xPrev = x, !.dxPrev = fInt(0), !.tPrev = t,
                                          !.initialized = TRUE]]
    ELSE LET dt == fSub(t, f.tPrev)
         IN IF dt[1] <= 0 THEN [out |-> f.xPrev, filter |-> [f EXCEPT !.tPrev = t]]
            ELSE LET dx == fDiv(fSub(x, f.xPrev), dt)
                     aD == smoothingFactor(f.dCutoff, dt)
                     dxSmoothed == fAdd(fMul(aD, dx), fMul(fSub(fInt(1), aD), f.dxPrev))
                     cutoff == fAdd(f.minCutoff, fMul(f.beta, fAbs(dxSmoothed)))
                     a == smoothingFactor(cutoff, dt)
                     xFiltered == fAdd(fMul(a, x), fMul(fSub(fInt(1), a), f.xPrev))
                 IN [out |-> xFiltered,
                     filter |-> [f EXCEPT !.xPrev = xFiltered, !.dxPrev = dxSmoothed,
                                          !.tPrev = t]]

\* a variant of filter that blends the sample with the previous derivative
filterBlendsDerivative(f, x, t) ==
    IF ~f.initialized
    THEN [out |-> x, filter |-> [f EXCEPT !.xPrev = x, !.dxPrev = fInt(0), !.tPrev = t,
                                          !.initialized = TRUE]]
    ELSE LET dt == fSub(t, f.tPrev)
         IN IF dt[1] <= 0 THEN [out |-> f.xPrev, filter |-> f]
            ELSE LET dx == fDiv(fSub(x, f.xPrev), dt)
                     aD == smoothingFactor(f.dCutoff, dt)
                     dxSmoothed == fAdd(fMul(aD, dx), fMul(fSub(fInt(1), aD), f.dxPrev))
                     cutoff == fAdd(f.minCutoff, fMul(f.beta, fAbs(dxSmoothed)))
                     a == smoothingFactor(cutoff, dt)
                     xFiltered == fAdd(fMul(a, x), fMul(fSub(fInt(1), a), f.dxPrev))
                 IN [out |-> xFiltered,
                     filter |-> [f EXCEPT !.xPrev = xFiltered, !.dxPrev = dxSmoothed,
                                          !.tPrev = t]]

\* OneEuroFilter.filter(x, t) on the filter f: the value returned and the filter afterwards
filter(f, x, t) ==
    IF ~f.initialized
    THEN [out |-> x, filter |-> [f EXCEPT !.xPrev = x, !.dxPrev = fInt(0), !.tPrev = t,
                                          !.initialized = TRUE]]
    ELSE LET dt == fSub(t, f.tPrev)
         IN IF dt[1] <= 0 THEN [out |-> f.xPrev, filter |-> f]
            ELSE LET dx == fDiv(fSub(x, f.xPrev), dt)
                     aD == smoothingFactor(f.dCutoff, dt)
                     dxSmoothed == fAdd(fMul(aD, dx), fMul(fSub(fInt(1), aD), f.dxPrev))
                     cutoff == fAdd(f.minCutoff, fMul(f.beta, fAbs(dxSmoothed)))
                     a == smoothingFactor(cutoff, dt)
                     xFiltered == fAdd(fMul(a, x), fMul(fSub(fInt(1), a), f.xPrev))
                 IN [out |-> xFiltered,
                     filter |-> [f EXCEPT !.xPrev = xFiltered, !.dxPrev = dxSmoothed,
                                          !.tPrev = t]]

CORE_TORSO == {"LEFT_SHOULDER", "RIGHT_SHOULDER", "LEFT_HIP", "RIGHT_HIP"}

LEGS == {"LEFT_KNEE", "RIGHT_KNEE", "LEFT_ANKLE", "RIGHT_ANKLE"}

getFilterParams(name) ==
    IF name \in CORE_TORSO THEN [minCutoff |-> fRat(3, 2), beta |-> fRat(5, 1000)]
    ELSE IF name \in LEGS THEN [minCutoff |-> fRat(4, 5), beta |-> fRat(1, 100)]
    ELSE [minCutoff |-> fRat(1, 2), beta |-> fRat(15, 1000)]

Coords == {"x", "y", "z"}

\* raw landmarks are kept in thousandths; twice the shoulder-to-ankle height
estimateBodyHeight2(landmarks) ==
    Abs((landmarks["LEFT_ANKLE"].y + landmarks["RIGHT_ANKLE"].y)
          - (landmarks["LEFT_SHOULDER"].y + landmarks["RIGHT_SHOULDER"].y))

\* dist > bodyHeight * 0.15, squared and cleared of fractions:
\* dx^2 + dy^2 > (3/20)^2 * (bodyHeight2 / 2)^2
beyondThreshold(lm, prev, bodyHeight2) ==
    LET dx == lm.x - prev.x
        dy == lm.y - prev.y
    IN 1600 * (dx * dx + dy * dy) > 9 * bodyHeight2 * bodyHeight2

\* a variant of rejectOutliers that returns the previous landmark whole
rejectOutliersWhole(rawLandmarks, prevLandmarks, bodyHeight2) ==
    IF ~prevLandmarks.present \/ bodyHeight2 <= 0 THEN rawLandmarks
    ELSE [name \in DOMAIN rawLandmarks |->
            IF beyondThreshold(rawLandmarks[name], prevLandmarks.value[name], bodyHeight2)
            THEN prevLandmarks.value[name]
            ELSE rawLandmarks[name]]

rejectOutliers(rawLandmarks, prevLandmarks, bodyHeight2) ==
    IF ~prevLandmarks.present \/ bodyHeight2 <= 0 THEN rawLandmarks
    ELSE [name \in DOMAIN rawLandmarks |->
            IF beyondThreshold(rawLandmarks[name], prevLandmarks.value[name], bodyHeight2)
            THEN [prevLandmarks.value[name] EXCEPT
                    !.visibility = rawLandmarks[name].visibility]
            ELSE rawLandmarks[name]]

\* processVideo's locals before the first iteration of the extraction loop
newConditioner(names) ==
    [i |-> 0,
     bodyHeight2 |-> 0,
     prevLandmarks |-> [present |-> FALSE],
     filters |-> [name \in names |->
                    [c \in Coords |-> OneEuroFilter(getFilterParams(name).minCutoff,
                                                     getFilterParams(name).beta)]],
     frames |-> <<>>]

\* the loop remembering the observation itself, not what the rejector handed on, as the
\* previous landmarks
conditionFrameComparesObserved(c, sample, timeStep) ==
    LET time == fMul(fInt(c.i), timeStep)
    IN IF ~sample.detected THEN [c EXCEPT !.i = c.i + 1]
       ELSE LET bodyHeight2 == IF c.bodyHeight2 = 0
                               THEN estimateBodyHeight2(sample.landmarks)
                               ELSE c.bodyHeight2
                rawLandmarks == rejectOutliers(sample.landmarks, c.prevLandmarks, bodyHeight2)
                filtered == [name \in DOMAIN rawLandmarks |->
                               [k \in Coords |-> filter(c.filters[name][k],
                                                        fCoord(rawLandmarks[name][k]), time)]]
            IN [i |-> c.i + 1,
                bodyHeight2 |-> bodyHeight2,
                prevLandmarks |-> [present |-> TRUE, value |-> sample.landmarks],
                filters |-> [name \in DOMAIN rawLandmarks |->
                               [k \in Coords |-> filtered[name][k].filter]],
                frames |-> Append(c.frames,
                             [timestamp |-> time,
                              landmarks |-> [name \in DOMAIN rawLandmarks |->
                                  [x |-> filtered[name]["x"].out,
                                   y |-> filtered[name]["y"].out,
                                   z |-> filtered[name]["z"].out,
                                   visibility |-> rawLandmarks[name].visibility]]])]

\* one iteration of the extraction loop: `sample` is what the landmarker detects at the
\* instant i * timeStep
conditionFrame(c, sample, timeStep) ==
    LET time == fMul(fInt(c.i), timeStep)
    IN IF ~sample.detected THEN [c EXCEPT !.i = c.i + 1]
       ELSE LET bodyHeight2 == IF c.bodyHeight2 = 0
                               THEN estimateBodyHeight2(sample.landmarks)
                               ELSE c.bodyHeight2
                rawLandmarks == rejectOutliers(sample.landmarks, c.prevLandmarks, bodyHeight2)
                filtered == [name \in DOMAIN rawLandmarks |->
                               [k \in Coords |-> filter(c.filters[name][k],
                                                        fCoord(rawLandmarks[name][k]), time)]]
            IN [i |-> c.i + 1,
                bodyHeight2 |-> bodyHeight2,
                prevLandmarks |-> [present |-> TRUE, value |-> rawLandmarks],
                filters |-> [name \in DOMAIN rawLandmarks |->
                               [k \in Coords |-> filtered[name][k].filter]],
                frames |-> Append(c.frames,
                             [timestamp |-> time,
                              landmarks |-> [name \in DOMAIN rawLandmarks |->
                                  [x |-> filtered[name]["x"].out,
                                   y |-> filtered[name]["y"].out,
                                   z |-> filtered[name]["z"].out,
                                   visibility |-> rawLandmarks[name].visibility]]])]

-----------------------------------------------------------------------------
(* Input videos.  A video is a concatenation of segments; a segment is a   *)
(* hip-height shape performed with a posture profile.                      *)

LandmarkNames ==
    {"NOSE", "LEFT_EYE", "RIGHT_EYE", "LEFT_SHOULDER", "RIGHT_SHOULDER", "LEFT_ELBOW",
     "RIGHT_ELBOW", "LEFT_WRIST", "RIGHT_WRIST", "LEFT_HIP", "RIGHT_HIP", "LEFT_KNEE",
     "RIGHT_KNEE", "LEFT_ANKLE", "RIGHT_ANKLE", "LEFT_HEEL", "RIGHT_HEEL",
     "LEFT_FOOT_INDEX", "RIGHT_FOOT_INDEX"}

Point(x, y, visibility) == [x |-> x, y |-> y, z |-> 0, visibility |-> visibility]

\* hip heights (per frame) of a lifter standing still, and of a full squat
Rest == <<500, 500, 500>>
Deep == <<500, 580, 670, 750, 670, 580, 500>>

\* hip height when standing, and the hip travel over which lean and heel lift develop
StandY == Rest[1]
FullTravel == Deep[4] - Deep[1]

\* the landmarks of a lifter whose hips are at height hipY, in posture `prof`
Pose(hipY, prof) ==
    LET d == hipY - StandY
        dx == (prof.lean * d) \div FullTravel
        lift == (prof.heel * d) \div FullTravel
        sh == prof.shoulderHalf
        st == prof.stanceHalf
        back == (prof.hinge * d) \div FullTravel
    IN [name \in LandmarkNames |->
         CASE name = "NOSE" -> Point(500 + dx, hipY - 370, prof.faceVis)
           [] name = "LEFT_EYE" -> Point(515 + dx, hipY - 380, prof.faceVis)
           [] name = "RIGHT_EYE" -> Point(485 + dx, hipY - 380, prof.faceVis)
           [] name = "LEFT_SHOULDER" -> Point(500 + sh + dx, hipY - 250, prof.shoulderVis)
           [] name = "RIGHT_SHOULDER" -> Point(500 - sh + dx, hipY - 250, prof.shoulderVis)
           [] name = "LEFT_ELBOW" -> Point(520 + sh + dx, hipY - 120, prof.leftArmVis)
           [] name = "RIGHT_ELBOW" -> Point(480 - sh + dx, hipY - 120, prof.rightArmVis)
           [] name = "LEFT_WRIST" -> Point(520 + sh + dx, hipY - 240, prof.leftArmVis)
           [] name = "RIGHT_WRIST" -> Point(480 - sh + dx, hipY - 240, prof.rightArmVis)
           [] name = "LEFT_HIP" -> Point(500 + prof.hipHalf + back, hipY, prof.hipVis)
           [] name = "RIGHT_HIP" -> Point(500 - prof.hipHalf + back, hipY, prof.hipVis)
           [] name = "LEFT_KNEE" -> Point(500 + st - prof.drift, 700, prof.legVis)
           [] name = "RIGHT_KNEE" -> Point(500 - st + prof.drift, 700, prof.legVis)
           [] name = "LEFT_ANKLE" -> Point(500 + st, 900, prof.legVis)
           [] name = "RIGHT_ANKLE" -> Point(500 - st, 900, prof.legVis)
           [] name = "LEFT_HEEL" -> Point(500 + st, 920 - lift, prof.legVis)
           [] name = "RIGHT_HEEL" -> Point(500 - st, 920 - lift, prof.legVis)
           [] name = "LEFT_FOOT_INDEX" -> Point(510 + st, 930, prof.legVis)
           [] name = "RIGHT_FOOT_INDEX" -> Point(490 - st, 930, prof.legVis)]

\* frontal view, upright, knees over ankles, everything visible
CleanProfile ==
    [shoulderHalf |-> 110, stanceHalf |-> 70, hipHalf |-> 40, drift |-> 0, lean |-> 0,
     heel |-> 0, hinge |-> 0, faceVis |-> 90, shoulderVis |-> 100, leftArmVis |-> 90, rightArmVis |-> 80,
     hipVis |-> 100, legVis |-> 100, detected |-> TRUE]

Shallow == <<500, 550, 600, 650, 600, 550, 500>>
Dip == <<500, 503, 500>>
Descend == <<500, 600, 700>>
Hinge == <<500, 545, 590, 545>>

SegKinds ==
    << [shape |-> Rest, prof |-> CleanProfile],
       [shape |-> Deep, prof |-> CleanProfile],
       \* knees caving in by 15% of the stance width
       [shape |-> Deep, prof |-> [CleanProfile EXCEPT !.drift = 21]],
       \* filmed from the side, leaning forward, heels lifting
       [shape |-> Shallow, prof |-> [CleanProfile EXCEPT !.shoulderHalf = 30, !.lean = 300,
                                                          !.heel = 40]],
       [shape |-> Dip, prof |-> CleanProfile],
       [shape |-> Descend, prof |-> CleanProfile],
       \* a hip hinge with the legs and shoulders occluded
       [shape |-> Hinge, prof |-> [CleanProfile EXCEPT !.hipHalf = 70, !.hinge = 150,
                                                        !.hipVis = 40, !.shoulderVis = 20,
                                                        !.legVis = 20]],
       \* a hip hinge: the hips travel back over nearly straight legs
       [shape |-> Hinge, prof |-> [CleanProfile EXCEPT !.hipHalf = 70, !.hinge = 150]],
       \* nobody in the picture
       [shape |-> Rest, prof |-> [CleanProfile EXCEPT !.detected = FALSE]] >>

\* largest number of segments in a video
MaxSegs == 2

\* frame rates detectNativeFps may report
NativeFps == {30, 1}

RECURSIVE segFrames(_)
\* the (hipY, profile) pairs of a sequence of segment kinds
segFrames(kinds) ==
    IF kinds = <<>> THEN <<>>
    ELSE LET seg == SegKinds[Head(kinds)]
         IN [k \in 1..Len(seg.shape) |-> <<seg.shape[k], seg.prof>>] \o segFrames(Tail(kinds))

\* the samples of a video: sample i is taken at time i * timeStep, timeStep = 1 / fps
Samples(video) ==
    LET poses == segFrames(video.kinds)
        timeStep == TicksPerSecond \div video.fps
    IN [k \in 1..Len(poses) |->
          [timestamp |-> (k - 1) * timeStep,
           detected |-> poses[k][2].detected,
           landmarks |-> Pose(poses[k][1], poses[k][2])]]

KindSeqs == UNION {[1..m -> 1..Len(SegKinds)] : m \in 1..MaxSegs}

Videos == {[kinds |-> ks, fps |-> fps] : ks \in KindSeqs, fps \in NativeFps}

NoVideo == [kinds |-> <<>>, fps |-> 0]

-----------------------------------------------------------------------------
(* The analyze page *)

NoValue == [present |-> FALSE]

Init ==
    /\ videoFile = NoVideo
    /\ pc = "upload"
    /\ analyzing = FALSE
    /\ analysisError = ""
    /\ poseResult = NoValue
    /\ squatResult = NoValue
    /\ trimmed = NoValue
    /\ store = NoValue
    /\ route = "/analyze"
    /\ signal = <<>>
    /\ detected = <<>>
    /\ redetected = <<>>
    /\ scenario = NoValue
    /\ altFrames = <<>>
    /\ altResult = NoValue
    /\ rawStream = NoValue
    /\ conditioner = NoValue
    /\ euro = NoValue
    /\ cameraCase = NoValue
    /\ exerciseCase = NoValue
    /\ fpsProbe = NoValue
    /\ extraction = NoValue
    /\ recorder = NoValue

harnessVars == <<signal, detected, redetected, scenario, altFrames, altResult, rawStream,
                 conditioner, euro, cameraCase, exerciseCase, fpsProbe, extraction,
                 recorder>>

\* handleFile / handleRecorded: a video is chosen; the upload zone and the recorder are
\* rendered only while no video is selected
handleFile(video) ==
    /\ pc = "upload"
    /\ ~analyzing
    /\ videoFile = NoVideo
    /\ videoFile' = video
    /\ UNCHANGED <<pc, analyzing, analysisError, poseResult, squatResult, trimmed, store, route>>
    /\ UNCHANGED harnessVars

\* clearVideo: back to the empty upload screen; the locals of the last run are gone
clearVideo ==
    /\ pc = "upload"
    /\ ~analyzing
    /\ videoFile # NoVideo
    /\ videoFile' = NoVideo
    /\ analyzing' = FALSE
    /\ analysisError' = ""
    /\ poseResult' = NoValue
    /\ squatResult' = NoValue
    /\ trimmed' = NoValue
    /\ UNCHANGED <<pc, store, route>>
    /\ UNCHANGED harnessVars

\* handleAnalyze up to the await of processVideo
handleAnalyze ==
    /\ pc = "upload"
    /\ ~analyzing
    /\ videoFile # NoVideo
    /\ analyzing' = TRUE
    /\ analysisError' = ""
    /\ pc' = "processing"
    /\ poseResult' = NoValue
    /\ squatResult' = NoValue
    /\ trimmed' = NoValue
    /\ UNCHANGED <<videoFile, store, route>>
    /\ UNCHANGED harnessVars

\* a catch block that reports the error but leaves the processing screen up
catchErrorStillAnalyzing(message) ==
    /\ analyzing' = analyzing
    /\ analysisError' = message
    /\ pc' = "upload"

\* the catch block of handleAnalyze
catchError(message) ==
    /\ analyzing' = FALSE
    /\ analysisError' = message
    /\ pc' = "upload"

\* processVideo rejects: the video cannot be loaded, or one of its gates throws
processVideoRejects ==
    /\ pc = "processing"
    /\ \E message \in {VideoLoadError} \cup
                      (IF processVideo(Samples(videoFile)).threw
                       THEN {processVideo(Samples(videoFile)).error} ELSE {}) :
          catchError(message)
    /\ UNCHANGED <<videoFile, poseResult, squatResult, trimmed, store, route>>
    /\ UNCHANGED harnessVars

\* processVideo resolves: handleAnalyze up to the await of the squatAnalysis import
processVideoResolves ==
    /\ pc = "processing"
    /\ LET pose == processVideo(Samples(videoFile))
       IN /\ ~pose.threw
          /\ poseResult' = [present |-> TRUE, value |-> pose]
    /\ pc' = "analyzing"
    /\ UNCHANGED <<videoFile, analyzing, analysisError, squatResult, trimmed, store, route>>
    /\ UNCHANGED harnessVars

\* analyzeSquat throws
analyzeThrows ==
    /\ pc = "analyzing"
    /\ analyzeSquatThrows(poseResult.value.frames)
    /\ catchError(NoRepsError)
    /\ UNCHANGED <<videoFile, poseResult, squatResult, trimmed, store, route>>
    /\ UNCHANGED harnessVars

\* setAnalysis(squatResult, trimmed.frames, videoFile, trimmed.startTimestamp,
\* trimmed.endTimestamp) after squatResult.reps = rebaseReps(squatResult.reps, trimmed.trimStartIdx)
setAnalysis(result, trim, offset, video) ==
    /\ squatResult' = [present |-> TRUE, value |-> result]
    /\ trimmed' = [present |-> TRUE, value |-> trim]
    /\ store' = [present |-> TRUE,
                 result |-> [result EXCEPT !.reps = rebaseReps(result.reps, offset)],
                 frames |-> trim.frames,
                 video |-> video,
                 startTimestamp |-> trim.startTimestamp,
                 endTimestamp |-> trim.endTimestamp]

\* the analysis succeeds and the result is stored: handleAnalyze up to the await of the
\* 400 ms delay
analyzeStores ==
    /\ pc = "analyzing"
    /\ ~analyzeSquatThrows(poseResult.value.frames)
    /\ setAnalysis(analyzeSquat(poseResult.value.frames, poseResult.value.exerciseType,
                                poseResult.value.cameraAngle),
                   trimFramesToReps(poseResult.value.frames),
                   trimStartIdx(poseResult.value.frames),
                   videoFile)
    /\ pc' = "delay"
    /\ UNCHANGED <<videoFile, analyzing, analysisError, poseResult, route>>
    /\ UNCHANGED harnessVars

\* the delay elapses: router.push("/results")
navigate ==
    /\ pc = "delay"
    /\ route' = "/results"
    /\ pc' = "results"
    /\ UNCHANGED <<videoFile, analyzing, analysisError, poseResult, squatResult, trimmed, store>>
    /\ UNCHANGED harnessVars

Next ==
    \/ \E video \in Videos : handleFile(video)
    \/ clearVideo
    \/ handleAnalyze
    \/ processVideoRejects
    \/ processVideoResolves
    \/ analyzeThrows
    \/ analyzeStores
    \/ navigate

Spec == Init /\ [][Next]_vars

-----------------------------------------------------------------------------
(* Properties of the analyze page and of analyzeSquat (specification Spec) *)

\* the frames the last run analysed, and what analyzeSquat returned for them
analysed == poseResult.value.frames
result == squatResult.value

RepIndices == 1..Len(result.reps)

WellRated(m) ==
    /\ m.score \in 0..100
    /\ (m.rating = "green") <=> (m.score >= 80)
    /\ (m.rating = "yellow") <=> (m.score >= 50 /\ m.score < 80)
    /\ (m.rating = "red") <=> (m.score < 50)

\* C1: every MetricScore of every rep and of overall has an integer score in 0..100 and the
\* rating its score band names (green from 80, yellow from 50 to 79, red below 50)
C1_ScoresAndRatings ==
    squatResult.present =>
        /\ \A k \in RepIndices : \A m \in MetricSet : WellRated(result.reps[k][m])
        /\ \A m \in MetricSet : WellRated(result.overall[m])

\* a result with several reps that shows all three ratings, per rep and overall, and an
\* overall score on a band edge
C1_Witness ==
    /\ squatResult.present
    /\ Len(result.reps) >= 2
    /\ \A c \in {"green", "yellow", "red"} :
          /\ \E k \in RepIndices : \E m \in MetricSet : result.reps[k][m].rating = c
          /\ \E m \in MetricSet : result.overall[m].rating = c
    /\ \E m \in MetricSet : result.overall[m].score \in {50, 80}

\* C2: every rep analyzeSquat scores, detected or fallback, has
\* 0 <= startFrame <= bottomFrame <= endFrame <= frames.length - 1
C2_RepBounds ==
    squatResult.present =>
        \A k \in RepIndices :
            /\ 0 <= result.reps[k].startFrame
            /\ result.reps[k].startFrame <= result.reps[k].bottomFrame
            /\ result.reps[k].bottomFrame <= result.reps[k].endFrame
            /\ result.reps[k].endFrame <= Len(analysed) - 1

\* two detected reps, cut from each other between their bottoms
C2_Witness ==
    /\ squatResult.present
    /\ Len(result.reps) = 2
    /\ detectReps(analysed) # <<>>
    /\ result.reps[2].startFrame > result.reps[1].bottomFrame
    /\ result.reps[2].startFrame < result.reps[2].bottomFrame

\* 2 * (max - min) of the per-frame average hip y of the analysed frames
hipRange2 ==
    MaxOf({HipY2(analysed[k]) : k \in 1..Len(analysed)})
        - MinOf({HipY2(analysed[k]) : k \in 1..Len(analysed)})

\* the run has passed analyzeSquat, and peak detection found no rep in its frames
analysedWithoutPeak ==
    /\ poseResult.present
    /\ pc # "analyzing"
    /\ detectReps(analysed) = <<>>

\* C3: when peak detection finds no rep, a hip range above 0.005 gives exactly one rep
\* 0..n-1 whose bottom is a frame of maximum hip y, and a hip range below 0.005 gives the
\* no-reps error and no result
C3_FallbackOrThrow ==
    analysedWithoutPeak =>
        /\ hipRange2 > minHipRange2 =>
              /\ squatResult.present
              /\ result.repCount = 1
              /\ Len(result.reps) = 1
              /\ result.reps[1].startFrame = 0
              /\ result.reps[1].endFrame = Len(analysed) - 1
              /\ \A k \in 1..Len(analysed) :
                    HipY2(analysed[k]) <= HipY2(At(analysed, result.reps[1].bottomFrame))
        /\ hipRange2 < minHipRange2 =>
              /\ ~squatResult.present
              /\ ~store.present
              /\ analysisError = NoRepsError

\* the whole clip scored as one rep whose bottom is its last frame
C3_WitnessFallback ==
    /\ analysedWithoutPeak
    /\ hipRange2 > minHipRange2
    /\ squatResult.present
    /\ result.reps[1].bottomFrame = Len(analysed) - 1

\* C4: when a stage of a run throws, the step that follows clears the analyzing flag and
\* sets the error message, stores nothing, returns no result and does not navigate
stageThrows ==
    \/ pc = "processing" /\ processVideo(Samples(videoFile)).threw
    \/ pc = "analyzing" /\ analyzeSquatThrows(analysed)

C4_NoResultWithError ==
    [][stageThrows =>
          /\ ~analyzing'
          /\ analysisError' # ""
          /\ ~squatResult'.present
          /\ store' = store
          /\ route' = route
          /\ pc' = "upload"]_vars

\* a run in which processVideo resolved and analyzeSquat threw
C4_Witness ==
    /\ poseResult.present
    /\ analysisError = NoRepsError
    /\ ~analyzing
    /\ ~store.present
    /\ route = "/analyze"

AveragedMetrics == MetricSet \ {"depthConsistency"}

scoreSum(m) == SumSeq([k \in 1..Len(result.reps) |-> result.reps[k][m].score])

\* C15: for every metric but depthConsistency the overall score is the mean of the reps'
\* scores rounded to the nearest integer (a half rounds up), and the overall rating is the
\* band of that rounded score
C15_OverallIsRoundedMean ==
    squatResult.present =>
        \A m \in AveragedMetrics :
            /\ 2 * Len(result.reps) * result.overall[m].score <= 2 * scoreSum(m) + Len(result.reps)
            /\ 2 * scoreSum(m) + Len(result.reps)
                  < 2 * Len(result.reps) * (result.overall[m].score + 1)
            /\ result.overall[m].rating =
                  IF result.overall[m].score >= 80 THEN "green"
                  ELSE IF result.overall[m].score >= 50 THEN "yellow" ELSE "red"

\* two reps whose scores for a metric have an odd sum: the mean ends in .5 and rounds up
C15_Witness ==
    /\ squatResult.present
    /\ Len(result.reps) = 2
    /\ \E m \in AveragedMetrics :
          /\ scoreSum(m) % 2 = 1
          /\ 2 * result.overall[m].score = scoreSum(m) + 1

\* the number of reps scoring below v, and at most v, for metric m
repsBelow(m, v) == Cardinality({k \in RepIndices : result.reps[k][m].score < v})
repsUpTo(m, v) == Cardinality({k \in RepIndices : result.reps[k][m].score <= v})

goodSuffix(m) ==
    IF Len(result.reps) > 1
    THEN " (" \o ToString(Cardinality({k \in RepIndices : result.reps[k][m].score >= 80}))
             \o "/" \o ToString(Len(result.reps)) \o " reps rated good)"
    ELSE ""

\* C16 as stated: the overall summary is the summary of a rep whose score is the lower
\* median of the reps' scores, followed by the good-reps suffix when there are several reps
C16_SummaryOfLowerMedian ==
    squatResult.present =>
        \A m \in AveragedMetrics :
            \E k \in RepIndices :
                /\ repsBelow(m, result.reps[k][m].score) <= (Len(result.reps) - 1) \div 2
                /\ repsUpTo(m, result.reps[k][m].score) > (Len(result.reps) - 1) \div 2
                /\ result.overall[m].summary = result.reps[k][m].summary \o goodSuffix(m)

\* C16: the overall summary is the summary of a rep whose score is the upper median of the
\* reps' scores (for an even number of reps, the higher of the two middle scores), followed
\* by the good-reps suffix exactly when there is more than one rep
C16_SummaryOfUpperMedian ==
    squatResult.present =>
        \A m \in AveragedMetrics :
            \E k \in RepIndices :
                /\ repsBelow(m, result.reps[k][m].score) <= Len(result.reps) \div 2
                /\ repsUpTo(m, result.reps[k][m].score) > Len(result.reps) \div 2
                /\ result.overall[m].summary = result.reps[k][m].summary \o goodSuffix(m)

\* two reps with different depth scores and summaries: overall shows the better one's
C16_Witness ==
    /\ squatResult.present
    /\ Len(result.reps) = 2
    /\ result.reps[1].depth.score < result.reps[2].depth.score
    /\ result.reps[1].depth.summary # result.reps[2].depth.summary
    /\ result.overall.depth.summary = result.reps[2].depth.summary \o goodSuffix("depth")

\* depthConsistency reported as not applicable: full score, green, nothing flagged
notApplicable(m) == m.score = 100 /\ m.rating = "green" /\ m.issueFrames = <<>>

\* C22: when fewer than 2 reps are analysed, the single whole-clip fallback rep included,
\* depthConsistency has score 100, rating green and no issue frames, in the rep and in
\* overall
C22_SingleRepConsistencyPerfect ==
    squatResult.present /\ Len(result.reps) < 2 =>
        /\ \A k \in RepIndices : notApplicable(result.reps[k].depthConsistency)
        /\ notApplicable(result.overall.depthConsistency)

\* detectReps found nothing and the whole clip was analysed as one rep around its lowest
\* frame
C22_Witness ==
    /\ squatResult.present
    /\ detectReps(analysed) = <<>>
    /\ Len(result.reps) = 1
    /\ result.reps[1].startFrame = 0
    /\ result.reps[1].endFrame = Len(analysed) - 1
    /\ notApplicable(result.reps[1].depthConsistency)
    /\ notApplicable(result.overall.depthConsistency)


\* whether summary s begins with prefix p
startsWith(s, p) == Len(s) >= Len(p) /\ SubSeq(s, 1, Len(p)) = p

\* the summaries the scorers write in their good, borderline and poor branches, by the
\* words they begin with
GoodSummaries == {"Good ", "Excellent"}
BorderlineSummaries ==
    {"Close to parallel", "Minor", "Moderate", "Head position slightly off",
     "Hips rising slightly", "Some horizontal drift", "Stance slightly"}
PoorSummaries ==
    {"Squat depth is above parallel", "Significant", "Excessive", "Poor", "Good-morning",
     "Hard bounce", "Inconsistent", "Stance too", "Stance very"}

\* the band whose branch wrote the MetricScore m: every scorer sets the summary in the
\* branch that computes the score ("none" for the literal results of degenerate input)
bandOf(m) ==
    IF \E p \in GoodSummaries : startsWith(m.summary, p) THEN "good"
    ELSE IF \E p \in BorderlineSummaries : startsWith(m.summary, p) THEN "borderline"
    ELSE IF \E p \in PoorSummaries : startsWith(m.summary, p) THEN "poor"
    ELSE "none"

inBand(m) ==
    /\ bandOf(m) = "good" => m.score \in 80..100
    /\ bandOf(m) = "borderline" => m.score \in 50..79
    /\ bandOf(m) = "poor" => m.score \in 0..49

BandMetrics == MetricSet \ {"tempo"}

\* scoreBackAngle appended the inconsistency note: the torso angle's standard deviation
\* over the rep was above 15 degrees
inconsistentTorso(m) ==
    \E b \in {"Moderate forward lean", "Excessive forward lean"} :
        m.summary = b \o ". Torso angle was inconsistent throughout the rep"

\* what handleAnalyze stored for the results view
storedReps == store.result.reps

\* index i of the stored frames holds what index j of the analysed frames held
sameFrame(i, j) ==
    /\ i \in 0..(Len(store.frames) - 1)
    /\ At(store.frames, i) = At(analysed, j)

detectedSamples ==
    LET found(smp) == smp.detected IN SelectSeq(Samples(videoFile), found)

\* 100 * the six key-landmark visibilities summed over the detected samples, against
\* 0.3 * 100 for each of them
keyVisibilityLow ==
    SumSeq([k \in 1..Len(detectedSamples) |->
              detectedSamples[k].landmarks["LEFT_HIP"].visibility
                + detectedSamples[k].landmarks["RIGHT_HIP"].visibility
                + detectedSamples[k].landmarks["LEFT_KNEE"].visibility
                + detectedSamples[k].landmarks["RIGHT_KNEE"].visibility
                + detectedSamples[k].landmarks["LEFT_ANKLE"].visibility
                + detectedSamples[k].landmarks["RIGHT_ANKLE"].visibility])
        < 30 * 6 * Len(detectedSamples)

classifiedAs == detectExerciseType(extractFrames(Samples(videoFile)))

\* the error the gates report for the chosen video, "" when it passes them all
gateError ==
    IF detectedSamples = <<>> THEN NoPersonError
    ELSE IF keyVisibilityLow THEN LowVisibilityError
    ELSE IF classifiedAs = "deadlift" THEN DeadliftError
    ELSE IF classifiedAs = "other" THEN OtherExerciseError
    ELSE ""

GateErrors == {NoPersonError, LowVisibilityError, DeadliftError, OtherExerciseError}

\* C13: processVideo returns a result only for a video with a detection, mean key-landmark
\* visibility of at least 0.3 and an exercise type that is neither deadlift nor other, the
\* result holding exactly the detected samples; the error it throws otherwise is the one
\* of the first failing check in the order no-person, low-visibility, deadlift, other
C13_GatesInOrder ==
    /\ poseResult.present =>
          /\ gateError = ""
          /\ Len(poseResult.value.frames) = Len(detectedSamples)
          /\ poseResult.value.exerciseType \notin {"deadlift", "other"}
    /\ analysisError \in GateErrors => analysisError = gateError

\* a video of a hip hinge with occluded legs: classified as a deadlift, refused for its low
\* visibility
C13_Witness ==
    /\ analysisError = LowVisibilityError
    /\ classifiedAs = "deadlift"

\* C5: the depthConsistency MetricScore of every rep equals overall.depthConsistency in all
\* of its fields, confidence included
C5_DepthConsistencyShared ==
    squatResult.present =>
        \A k \in RepIndices :
            result.reps[k].depthConsistency = result.overall.depthConsistency

\* several reps whose depthConsistency was stamped with a confidence other than the
\* scorer's "high", and which flags frames
C5_Witness ==
    /\ squatResult.present
    /\ Len(result.reps) >= 2
    /\ result.overall.depthConsistency.confidence = "medium"
    /\ result.overall.depthConsistency.issueFrames # <<>>

InWindow(m, lo, hi) == \A j \in 1..Len(m.issueFrames) : m.issueFrames[j] \in lo..hi

-----------------------------------------------------------------------------
(* Segmentation harness: detectReps and trimFramesToReps applied to hip    *)
(* signals assembled from short shapes (specification SpecDetect)          *)

SigShapes ==
    << <<500, 500, 500>>,          \* standing
       <<500, 580, 670, 750, 670, 580, 500>>,   \* a squat
       <<500, 505, 515, 520, 515, 505>>,        \* a shallow bob
       <<750, 750>>,               \* a hold at depth
       <<600>> >>                  \* a one-frame spike

\* largest number of shapes in a signal
MaxSigSegs == 4

RECURSIVE sigHeights(_)
sigHeights(ks) ==
    IF ks = <<>> THEN <<>> ELSE SigShapes[Head(ks)] \o sigHeights(Tail(ks))

\* frames with the given hip heights, sampled at fps frames per second
framesAt(heights, fps) ==
    [k \in 1..Len(heights) |->
        [timestamp |-> (k - 1) * (TicksPerSecond \div fps),
         landmarks |-> Pose(heights[k], CleanProfile)]]

SigSeqs == UNION {[1..m -> 1..Len(SigShapes)] : m \in 1..MaxSigSegs}

InitDetect ==
    /\ signal \in {framesAt(sigHeights(ks), fps) : ks \in SigSeqs, fps \in NativeFps}
    /\ pc = "input"
    /\ detected = <<>>
    /\ redetected = <<>>
    /\ trimmed = NoValue
    /\ videoFile = NoVideo
    /\ analyzing = FALSE
    /\ analysisError = ""
    /\ poseResult = NoValue
    /\ squatResult = NoValue
    /\ store = NoValue
    /\ route = "/analyze"
    /\ scenario = NoValue
    /\ altFrames = <<>>
    /\ altResult = NoValue
    /\ rawStream = NoValue
    /\ conditioner = NoValue
    /\ euro = NoValue
    /\ cameraCase = NoValue
    /\ exerciseCase = NoValue
    /\ fpsProbe = NoValue
    /\ extraction = NoValue
    /\ recorder = NoValue

pageVars == <<videoFile, analyzing, analysisError, poseResult, squatResult, store, route>>

\* detectReps on the signal
segment ==
    /\ pc = "input"
    /\ detected' = detectReps(signal)
    /\ pc' = "segmented"
    /\ UNCHANGED <<signal, redetected, trimmed, scenario, altFrames, altResult>>
    /\ UNCHANGED pageVars
    /\ UNCHANGED conditionVars
    /\ UNCHANGED cameraCase
    /\ UNCHANGED laterVars

\* trimFramesToReps on the signal, then detectReps on the frames it returns
retrim(trim) ==
    /\ trimmed' = [present |-> TRUE, value |-> trim]
    /\ redetected' = detectReps(trim.frames)

trimAndSegment ==
    /\ pc = "segmented"
    /\ retrim(trimFramesToReps(signal))
    /\ pc' = "resegmented"
    /\ UNCHANGED <<signal, detected, scenario, altFrames, altResult>>
    /\ UNCHANGED pageVars
    /\ UNCHANGED conditionVars
    /\ UNCHANGED cameraCase
    /\ UNCHANGED laterVars

NextDetect == segment \/ trimAndSegment

SpecDetect == InitDetect /\ [][NextDetect]_vars

\* 60 * the smoothed hip signal of the frames under test
smoothedSignal == movingAverage([k \in 1..Len(signal) |-> HipY2(signal[k])], 5)

\* the clean peaks of the signal: the frames whose smoothed value is strictly above its two
\* neighbours on each side and at least 0.02 above some value in the 15 frames before it
\* and some value in the 15 frames after it
cleanPeaks ==
    {i \in 2..(Len(signal) - 3) :
        /\ \A j \in {i - 2, i - 1, i + 1, i + 2} : At(smoothedSignal, j) < At(smoothedSignal, i)
        /\ \E j \in Max2(0, i - 15)..(i - 1) :
              At(smoothedSignal, i) - At(smoothedSignal, j) >= minProminence
        /\ \E j \in (i + 1)..Min2(Len(signal) - 1, i + 15) :
              At(smoothedSignal, i) - At(smoothedSignal, j) >= minProminence}

\* C7: detectReps returns exactly one rep per clean peak, with the bottoms at the peak
\* indices in increasing order, and no other frame as a bottom
C7_RepsAtCleanPeaks ==
    pc # "input" =>
        /\ Len(detected) = Cardinality(cleanPeaks)
        /\ {detected[k].bottomFrame : k \in 1..Len(detected)} = cleanPeaks
        /\ \A k \in 1..(Len(detected) - 1) : detected[k].bottomFrame < detected[k + 1].bottomFrame

\* a signal with at least two clean peaks and a local maximum that lacks prominence
C7_Witness ==
    /\ pc # "input"
    /\ Len(detected) >= 2
    /\ \E i \in 2..(Len(signal) - 3) : isLocalMax(smoothedSignal, i) /\ i \notin cleanPeaks

\* C10: detectReps finds as many reps in the frames trimFramesToReps returns as in the
\* original frames
C10_TrimRoundTrip ==
    pc = "resegmented" => Len(redetected) = Len(detected)

\* the number of frames in 2.5 seconds at the signal's average inter-frame interval,
\* rounded up
signalBuffer ==
    CHOOSE b \in 1..(3 * 30) :
        /\ b * (signal[Len(signal)].timestamp - signal[1].timestamp)
              >= BUFFER_TICKS * (Len(signal) - 1)
        /\ (b - 1) * (signal[Len(signal)].timestamp - signal[1].timestamp)
              < BUFFER_TICKS * (Len(signal) - 1)

keptFrom == Max2(0, detected[1].startFrame - signalBuffer)
keptTo == Min2(Len(signal) - 1, detected[Len(detected)].endFrame + signalBuffer)

\* C11: with at least one detected rep trimFramesToReps returns frames[s..e], s and e one
\* buffer before the first rep's start and after the last rep's end (clipped to the
\* sequence), which holds every frame of every rep, with the timestamps of its first and
\* last frame; with no detected rep it returns the whole sequence with its first and last
\* timestamps
C11_TrimKeepsRepRange ==
    pc = "resegmented" =>
        /\ trimmed.value.startTimestamp = trimmed.value.frames[1].timestamp
        /\ trimmed.value.endTimestamp
              = trimmed.value.frames[Len(trimmed.value.frames)].timestamp
        /\ IF detected = <<>> THEN trimmed.value.frames = signal
           ELSE /\ trimmed.value.frames = SubSeq(signal, keptFrom + 1, keptTo + 1)
                /\ \A k \in 1..Len(detected) :
                      keptFrom <= detected[k].startFrame /\ detected[k].endFrame <= keptTo

\* a signal with a rep whose trimmed sequence drops frames at both ends
C11_Witness ==
    /\ pc = "resegmented"
    /\ detected # <<>>
    /\ keptFrom > 0
    /\ keptTo < Len(signal) - 1
    /\ Len(trimmed.value.frames) = keptTo - keptFrom + 1

\* C25: the reps detectReps returns are disjoint and in increasing order: each rep ends on
\* the frame before the next one starts, the next one starts on the floored midpoint of the
\* two bottoms, and consecutive bottoms are at least 3 frames apart
C25_RepsDisjointInOrder ==
    pc # "input" =>
        \A k \in 1..(Len(detected) - 1) :
            /\ detected[k].startFrame <= detected[k].endFrame
            /\ detected[k].endFrame + 1 = detected[k + 1].startFrame
            /\ detected[k + 1].startFrame
                  = (detected[k].bottomFrame + detected[k + 1].bottomFrame) \div 2
            /\ detected[k + 1].bottomFrame - detected[k].bottomFrame >= 3

\* three reps, two of them with bottoms an odd number of frames apart, so that the
\* midpoint is rounded down
C25_Witness ==
    /\ pc # "input"
    /\ Len(detected) >= 3
    /\ \E k \in 1..(Len(detected) - 1) :
          /\ (detected[k].bottomFrame + detected[k + 1].bottomFrame) % 2 = 1
          /\ detected[k].endFrame + 1 = detected[k + 1].startFrame

-----------------------------------------------------------------------------
(* Scenario harness: a 90-frame clip at 30 fps with three squats, and the   *)
(* same clip with the landmarks of one rep changed (specification           *)
(* SpecScenario)                                                            *)

\* frames per squat, and the frames of the clip
Period == 30
ScenarioFrames == 3 * Period
Half == Period \div 2

\* hip height at frame j of one squat: a straight descent and ascent, or standing, a
\* descent, an ascent and standing again; both are deepest at frame Half only
OscShape(shape, j) ==
    IF shape = "triangle"
    THEN (IF j <= Half THEN StandY + (FullTravel * j) \div Half
          ELSE StandY + (FullTravel * (Period - j)) \div (Period - Half))
    ELSE (IF j < 5 \/ j > Period - 5 THEN StandY
          ELSE IF j <= Half THEN StandY + (FullTravel * (j - 5)) \div (Half - 5)
          ELSE StandY + (FullTravel * (Period - 5 - j)) \div (Period - 5 - Half))

\* the clip of a scenario: knee drift `drift` while the hips are down, `standDrift` while
\* the lifter stands
baseProfile(sc, hipY) ==
    [CleanProfile EXCEPT !.drift = IF hipY = StandY THEN sc.standDrift ELSE sc.drift]

baseClip(sc) ==
    [k \in 1..ScenarioFrames |->
        [timestamp |-> (k - 1) * (TicksPerSecond \div 30),
         landmarks |-> Pose(OscShape(sc.shape, (k - 1) % Period),
                            baseProfile(sc, OscShape(sc.shape, (k - 1) % Period)))]]

\* knee drift of 15% of the stance width of CleanProfile
CaveDrift == (15 * 2 * CleanProfile.stanceHalf) \div 100

\* the landmarks of frame i (0-based) of the changed clip, where rep is the changed rep
changedPose(sc, base, rep, i) ==
    LET hipY == OscShape(sc.shape, i % Period)
        prof == baseProfile(sc, hipY)
    IN IF i < rep.startFrame \/ i > rep.endFrame THEN At(base, i).landmarks
       ELSE IF sc.change = "cave"
       THEN (IF isActiveFrame(base, rep, i) THEN Pose(hipY, [prof EXCEPT !.drift = CaveDrift])
             ELSE At(base, i).landmarks)
       ELSE IF sc.change = "lean" THEN Pose(hipY, [prof EXCEPT !.lean = 300, !.heel = 40])
       ELSE IF sc.change = "pitch" THEN Pose(hipY, [prof EXCEPT !.lean = 390])
       ELSE IF sc.change = "shuffle"
       THEN (IF isActiveFrame(base, rep, i) THEN Pose(hipY, [prof EXCEPT !.stanceHalf = 78])
             ELSE At(base, i).landmarks)
       ELSE IF sc.change = "stance" THEN Pose(hipY, [prof EXCEPT !.stanceHalf = 50])
       ELSE IF sc.change = "narrow"
       THEN Pose(hipY, [prof EXCEPT !.stanceHalf = 4, !.hipHalf = 4])
       ELSE (IF i = rep.bottomFrame THEN Pose(hipY - 20, prof) ELSE At(base, i).landmarks)

changedClip(sc, base, reps) ==
    IF sc.rep > Len(reps) THEN base
    ELSE [k \in 1..Len(base) |->
            [timestamp |-> base[k].timestamp,
             landmarks |-> changedPose(sc, base, reps[sc.rep], k - 1)]]

\* "narrow": ankles and hips less than 0.01 apart, as when the lifter is seen edge-on
\* "pitch": upright when standing, the torso tips forward to 57 degrees at the bottom;
\* "shuffle": the feet stand 11% wider while the hips are down
Changes == {"cave", "lean", "pitch", "shuffle", "stance", "narrow", "shallow"}

Scenarios ==
    {[shape |-> sh, drift |-> dr, standDrift |-> sd, angle |-> a, rep |-> 0, change |-> "none"] :
        sh \in {"triangle", "paused"}, dr \in {0, 3, 6, 7}, sd \in {0, 10},
        a \in {"frontal", "undefined"}}

InitScenario ==
    /\ scenario \in Scenarios
    /\ signal = baseClip(scenario)
    /\ altFrames = <<>>
    /\ pc = "scenario"
    /\ squatResult = NoValue
    /\ altResult = NoValue
    /\ detected = <<>>
    /\ redetected = <<>>
    /\ trimmed = NoValue
    /\ videoFile = NoVideo
    /\ analyzing = FALSE
    /\ analysisError = ""
    /\ poseResult = NoValue
    /\ store = NoValue
    /\ route = "/analyze"
    /\ rawStream = NoValue
    /\ conditioner = NoValue
    /\ euro = NoValue
    /\ cameraCase = NoValue
    /\ exerciseCase = NoValue
    /\ fpsProbe = NoValue
    /\ extraction = NoValue
    /\ recorder = NoValue

\* analyzeSquat on the clip; the angle "undefined" stands for a call without cameraAngle
scoreBase ==
    /\ pc = "scenario"
    /\ squatResult' = [present |-> TRUE, value |-> analyzeSquat(signal, "squat", scenario.angle)]
    /\ pc' = "scored"
    /\ UNCHANGED <<videoFile, analyzing, analysisError, poseResult, trimmed, store, route,
                   signal, detected, redetected, scenario, altFrames, altResult>>
    /\ UNCHANGED conditionVars
    /\ UNCHANGED cameraCase
    /\ UNCHANGED laterVars

\* the landmarks of rep r, as the analysis segmented it, are changed
changeRep(r, change) ==
    /\ pc = "scored"
    /\ ~squatResult.value.threw
    /\ r <= Len(squatResult.value.reps)
    /\ scenario' = [scenario EXCEPT !.rep = r, !.change = change]
    /\ altFrames' = changedClip(scenario', signal, squatResult.value.reps)
    /\ pc' = "changed"
    /\ UNCHANGED <<videoFile, analyzing, analysisError, poseResult, squatResult, trimmed, store,
                   route, signal, detected, redetected, altResult>>
    /\ UNCHANGED conditionVars
    /\ UNCHANGED cameraCase
    /\ UNCHANGED laterVars

\* analyzeSquat on the changed clip
scoreChanged ==
    /\ pc = "changed"
    /\ altResult' = [present |-> TRUE, value |-> analyzeSquat(altFrames, "squat", scenario.angle)]
    /\ pc' = "rescored"
    /\ UNCHANGED <<videoFile, analyzing, analysisError, poseResult, squatResult, trimmed, store,
                   route, signal, detected, redetected, scenario, altFrames>>
    /\ UNCHANGED conditionVars
    /\ UNCHANGED cameraCase
    /\ UNCHANGED laterVars

NextScenario ==
    \/ scoreBase
    \/ \E r \in 1..3, change \in Changes : changeRep(r, change)
    \/ scoreChanged

SpecScenario == InitScenario /\ [][NextScenario]_vars

\* frame i of rep r of the clip is one in which the hips have come down at least a quarter
\* of the way from the rep's start to its bottom
quarterDown(r, i) ==
    4 * (HipY2(At(signal, i)) - HipY2(At(signal, r.startFrame)))
        >= HipY2(At(signal, r.bottomFrame)) - HipY2(At(signal, r.startFrame))

\* the larger knee-to-ankle x-drift of frame i, and its stance width
kneeDriftAt(fs, i) ==
    Max2(Abs(L(At(fs, i), "LEFT_KNEE").x - L(At(fs, i), "LEFT_ANKLE").x),
         Abs(L(At(fs, i), "RIGHT_KNEE").x - L(At(fs, i), "RIGHT_ANKLE").x))

stanceAt(fs, i) == Abs(L(At(fs, i), "LEFT_ANKLE").x - L(At(fs, i), "RIGHT_ANKLE").x)

hipsBelowKneesAtBottoms ==
    \A k \in RepIndices :
        HipY2(At(signal, result.reps[k].bottomFrame))
            > L(At(signal, result.reps[k].bottomFrame), "LEFT_KNEE").y
                + L(At(signal, result.reps[k].bottomFrame), "RIGHT_KNEE").y

threeGreenReps ==
    /\ result.repCount = 3
    /\ \A k \in RepIndices :
          /\ result.reps[k].kneeTracking.rating = "green"
          /\ result.reps[k].depth.rating = "green"

\* C8 as stated: with knee drift at most 5% of the stance width in every active frame and
\* the hips below the knees at each bottom, the clip has 3 reps, all with green
\* kneeTracking and depth
C8_DriftWithinFivePercent ==
    (/\ pc # "scenario"
     /\ hipsBelowKneesAtBottoms
     /\ \A k \in RepIndices : \A i \in result.reps[k].startFrame..result.reps[k].endFrame :
           quarterDown(result.reps[k], i) => 20 * kneeDriftAt(signal, i) <= stanceAt(signal, i))
        => threeGreenReps

\* C8: with knee drift below 5% of the stance width in every active frame and the hips
\* below the knees at each bottom, the clip has 3 reps, all with green kneeTracking and depth
C8_DriftBelowFivePercent ==
    (/\ pc # "scenario"
     /\ hipsBelowKneesAtBottoms
     /\ \A k \in RepIndices : \A i \in result.reps[k].startFrame..result.reps[k].endFrame :
           quarterDown(result.reps[k], i) => 20 * kneeDriftAt(signal, i) < stanceAt(signal, i))
        => threeGreenReps

\* a scored clip whose drift is below 5% in the active frames and above it while standing
C8_Witness ==
    /\ pc # "scenario"
    /\ scenario.drift = 6
    /\ scenario.standDrift = 10
    /\ hipsBelowKneesAtBottoms
    /\ threeGreenReps

altReps == altResult.value.reps

sameSegmentation ==
    /\ Len(altReps) = Len(result.reps)
    /\ \A k \in RepIndices :
          /\ altReps[k].startFrame = result.reps[k].startFrame
          /\ altReps[k].bottomFrame = result.reps[k].bottomFrame
          /\ altReps[k].endFrame = result.reps[k].endFrame

\* the frames of the two clips differ only inside the window of rep sc.rep
changedInsideOneRep ==
    /\ scenario.rep \in RepIndices
    /\ \A i \in 0..(Len(signal) - 1) :
          At(altFrames, i) # At(signal, i) =>
              i \in result.reps[scenario.rep].startFrame..result.reps[scenario.rep].endFrame

\* C9: when the landmarks change only inside one rep's window and the segmentation stays,
\* every per-rep metric other than depthConsistency of every other rep is unchanged; and
\* when the change is a knee drift of 15% in that rep's active frames, that rep's
\* kneeTracking is red and every other rep's kneeTracking that was green is green
C9_PerRepLocality ==
    (pc = "rescored" /\ changedInsideOneRep /\ sameSegmentation) =>
        /\ \A k \in RepIndices \ {scenario.rep} : \A m \in MetricSet \ {"depthConsistency"} :
              altReps[k][m] = result.reps[k][m]
        /\ scenario.change = "cave" =>
              /\ altReps[scenario.rep].kneeTracking.rating = "red"
              /\ \A k \in RepIndices \ {scenario.rep} :
                    result.reps[k].kneeTracking.rating = "green"
                        => altReps[k].kneeTracking.rating = "green"

\* the middle rep caved: it alone is red, its neighbours are green as before
C9_Witness ==
    /\ pc = "rescored"
    /\ changedInsideOneRep
    /\ sameSegmentation
    /\ scenario.change = "cave"
    /\ scenario.rep = 2
    /\ result.reps[2].kneeTracking.rating = "green"
    /\ altReps[2].kneeTracking.rating = "red"
    /\ altReps[1].kneeTracking.rating = "green"
    /\ altReps[3].kneeTracking.rating = "green"

\* the camera angle analyzeSquat works with
passedAngle == IF scenario.angle = "undefined" THEN "uncertain" ELSE scenario.angle

\* C14: every rep's and overall's confidence for every metric is the confidence-matrix
\* entry for the metric and the camera angle passed to analyzeSquat, uncertain when none
\* is passed; getMetricConfidence gives medium outside the table
C14_ConfidenceFromMatrix ==
    /\ pc # "scenario" =>
          \A m \in MetricSet :
              /\ result.overall[m].confidence = CONFIDENCE_MATRIX[m][passedAngle]
              /\ \A k \in RepIndices :
                    result.reps[k][m].confidence = CONFIDENCE_MATRIX[m][passedAngle]
    /\ \A m \in MetricSet \cup {"gripWidth"} : \A a \in CameraAngles \cup {"overhead"} :
          (m \notin MetricSet \/ a \notin CameraAngles) => getMetricConfidence(m, a) = "medium"

\* a clip scored without a camera angle: kneeTracking, high from its scorer, shows medium
C14_Witness ==
    /\ pc # "scenario"
    /\ scenario.angle = "undefined"
    /\ result.reps[1].kneeTracking.confidence = "medium"
    /\ result.overall.kneeTracking.confidence = "medium"
    /\ result.overall.tempo.confidence = "high"

neutral(m) == m.score \in {50, 75} /\ m.rating = "yellow"

hipWidthAt(fs, i) == Abs(L(At(fs, i), "LEFT_HIP").x - L(At(fs, i), "RIGHT_HIP").x)

\* C12: a rep whose stance width is below 0.01 in every frame has a neutral kneeTracking
\* score (50 or 75, yellow); one whose hip width at the start frame is below 0.01 has a
\* neutral stanceWidth score; one whose ankle width at the start frame is below 0.01 has a
\* neutral stanceWidthShift score; one whose ascent is shorter than 3 frames has a neutral
\* hipRiseRate score
C12_NeutralWhenUnmeasurable ==
    pc = "rescored" =>
        \A k \in 1..Len(altReps) :
            /\ (\A i \in altReps[k].startFrame..altReps[k].endFrame : stanceAt(altFrames, i) < 10)
                  => neutral(altReps[k].kneeTracking)
            /\ hipWidthAt(altFrames, altReps[k].startFrame) < 10
                  => neutral(altReps[k].stanceWidth)
            /\ stanceAt(altFrames, altReps[k].startFrame) < 10
                  => neutral(altReps[k].stanceWidthShift)
            /\ altReps[k].endFrame - altReps[k].bottomFrame < 3
                  => neutral(altReps[k].hipRiseRate)

\* the reps scored so far: those of the clip and those of the changed clip
scoredReps ==
    (IF squatResult.present /\ ~result.threw THEN {result.reps} ELSE {})
        \cup (IF altResult.present /\ ~altResult.value.threw THEN {altReps} ELSE {})

\* C23 as stated: the score of every band-based metric of a rep (all but tempo,
\* depthConsistency and backAngle included) lies in the band its measurement selects:
\* good in 80..100, borderline in 50..79, poor in 0..49
C23_ScoreInSelectedBand ==
    \A reps \in scoredReps : \A k \in 1..Len(reps) : \A m \in BandMetrics : inBand(reps[k][m])

\* C23: the score of every band-based metric of a rep lies in the band its measurement
\* selects, except that backAngle, when the torso angle's standard deviation is above 15
\* degrees, lies 10 points below its band: borderline in 40..69, poor in 0..39
C23_ScoreInBandOrPenalised ==
    \A reps \in scoredReps : \A k \in 1..Len(reps) :
        /\ \A m \in BandMetrics \ {"backAngle"} : inBand(reps[k][m])
        /\ LET b == reps[k].backAngle
           IN IF inconsistentTorso(b)
              THEN /\ bandOf(b) = "borderline" => b.score \in 40..69
                   /\ bandOf(b) = "poor" => b.score \in 0..39
                   /\ bandOf(b) # "good"
              ELSE inBand(b)

\* a rep whose torso stayed within 60 degrees but swung by more than 15 degrees of
\* standard deviation: a borderline backAngle scored below 50 and rated red
C23_Witness ==
    /\ altResult.present
    /\ scenario.change = "pitch"
    /\ \E k \in 1..Len(altReps) :
          LET b == altReps[k].backAngle
          IN /\ bandOf(b) = "borderline"
             /\ inconsistentTorso(b)
             /\ b.score < 50
             /\ b.rating = "red"

strictlyIncreasing(s) == \A j \in 1..(Len(s) - 1) : s[j] < s[j + 1]

\* C24: in every MetricScore of every rep the issueFrames indices are strictly increasing
\* (no duplicates), also for stanceWidthShift, hipRiseRate, reversalControl and buttWink,
\* which add frames in more than one step
C24_IssueFramesIncreasing ==
    \A reps \in scoredReps : \A k \in 1..Len(reps) : \A m \in MetricSet :
        strictlyIncreasing(reps[k][m].issueFrames)

-----------------------------------------------------------------------------
(* One OneEuroFilter called with arbitrary samples and timestamps           *)
(* (specification SpecFilter)                                              *)

\* largest number of calls made on the filter
MaxCalls == 3

\* the coordinates offered to the filter, in thousandths
FilterInputs == {250, 500, 598}

\* the instants offered to the filter: multiples of a thirtieth of a second, in any order
FilterTimes == {fMul(fInt(i), fDiv(fInt(1), fInt(30))) : i \in 0..3}

InitFilter ==
    /\ euro \in {[filter |-> OneEuroFilter(getFilterParams(name).minCutoff,
                                           getFilterParams(name).beta),
                  out |-> fInt(0), x |-> fInt(0), t |-> fInt(0), calls |-> 0] :
                    name \in {"LEFT_HIP", "LEFT_KNEE", "NOSE"}}
    /\ pc = "filter"
    /\ rawStream = NoValue
    /\ conditioner = NoValue
    /\ signal = <<>>
    /\ detected = <<>>
    /\ redetected = <<>>
    /\ scenario = NoValue
    /\ altFrames = <<>>
    /\ altResult = NoValue
    /\ trimmed = NoValue
    /\ videoFile = NoVideo
    /\ analyzing = FALSE
    /\ analysisError = ""
    /\ poseResult = NoValue
    /\ squatResult = NoValue
    /\ store = NoValue
    /\ route = "/analyze"
    /\ cameraCase = NoValue
    /\ exerciseCase = NoValue
    /\ fpsProbe = NoValue
    /\ extraction = NoValue
    /\ recorder = NoValue

\* filter(x, t) on the filter
callFilter(x, t) ==
    /\ pc = "filter"
    /\ euro.calls < MaxCalls
    /\ LET res == filter(euro.filter, x, t)
       IN euro' = [filter |-> res.filter, out |-> res.out, x |-> x, t |-> t,
                   calls |-> euro.calls + 1]
    /\ UNCHANGED <<pc, rawStream, conditioner, signal, detected, redetected, scenario,
                   altFrames, altResult, trimmed>>
    /\ UNCHANGED cameraCase
    /\ UNCHANGED laterVars
    /\ UNCHANGED pageVars

NextFilter == \E n \in FilterInputs, t \in FilterTimes : callFilter(fCoord(n), t)

SpecFilter == InitFilter /\ [][NextFilter]_vars

\* C18: the first call on a filter returns its sample unchanged and leaves the filter
\* initialized; a later call whose timestamp is not greater than the stored timestamp
\* returns what the previous call returned and leaves xPrev, dxPrev and tPrev as they were
C18_FirstSampleAndStaleTimestamp ==
    [][euro'.calls = euro.calls + 1 =>
          /\ ~euro.filter.initialized =>
                /\ euro'.out = euro'.x
                /\ euro'.filter.initialized
          /\ (euro.filter.initialized /\ fLeq(euro'.t, euro.filter.tPrev)) =>
                /\ euro'.out = euro.out
                /\ euro'.filter.xPrev = euro.filter.xPrev
                /\ euro'.filter.dxPrev = euro.filter.dxPrev
                /\ euro'.filter.tPrev = euro.filter.tPrev]_vars

\* an accepted second sample has moved the output, and the third call, made with an older
\* timestamp and another sample, has returned that output again
C18_Witness ==
    /\ euro.calls = 3
    /\ euro.t # euro.filter.tPrev
    /\ fLeq(euro.t, euro.filter.tPrev)
    /\ euro.out = euro.filter.xPrev
    /\ euro.out # euro.x
    /\ euro.filter.dxPrev # fInt(0)

-----------------------------------------------------------------------------
(* The extraction loop of processVideo on raw landmark streams              *)
(* (specification SpecCondition)                                           *)

\* largest number of sampled instants of a raw stream
MaxRaw == 3

\* a lifter standing still; the shoulders are 0.65 above the ankles, so that a landmark
\* is an outlier when it moves by more than 0.0975
Standing == Pose(StandY, CleanProfile)

\* the same lifter lying level: the shoulders are at the height of the ankles
Level ==
    [Standing EXCEPT !["LEFT_SHOULDER"].y = Standing["LEFT_ANKLE"].y,
                     !["RIGHT_SHOULDER"].y = Standing["RIGHT_ANKLE"].y]

\* landmark `name` is observed dx further right, with visibility v
displaced(landmarks, name, dx, v) ==
    [landmarks EXCEPT ![name].x = @ + dx, ![name].visibility = v]

\* the landmarks followed through the loop: one of the extremities, the torso and the
\* legs; every landmark is conditioned by itself, the shoulders and ankles give the height
Conditioned ==
    {"NOSE", "LEFT_SHOULDER", "RIGHT_SHOULDER", "LEFT_HIP", "LEFT_KNEE", "LEFT_ANKLE",
     "RIGHT_ANKLE"}

\* what the landmarker delivers for a pose
observed(landmarks) ==
    [detected |-> TRUE, landmarks |-> [name \in Conditioned |-> landmarks[name]]]

\* what the landmarker may deliver at one instant
RawKinds ==
    << observed(Standing),
       \* the left knee jumps by 0.098
       observed(displaced(Standing, "LEFT_KNEE", 98, 60)),
       \* the left knee moves by 0.097
       observed(displaced(Standing, "LEFT_KNEE", 97, 70)),
       observed(Level),
       observed(displaced(Level, "LEFT_KNEE", 97, 70)),
       \* nobody in the picture
       [detected |-> FALSE, landmarks |-> <<>>] >>

\* the frame rate detectNativeFps reports for the streams
StreamFps == {30}

\* timeStep = 1 / detectedFps
RawStreams ==
    {[samples |-> [k \in 1..Len(ks) |-> RawKinds[ks[k]]], timeStep |-> fDiv(fInt(1), fInt(fps))] :
        ks \in UNION {[1..m -> 1..Len(RawKinds)] : m \in 1..MaxRaw}, fps \in StreamFps}

InitCondition ==
    /\ rawStream \in RawStreams
    /\ conditioner = newConditioner(Conditioned)
    /\ pc = "extracting"
    /\ euro = NoValue
    /\ signal = <<>>
    /\ detected = <<>>
    /\ redetected = <<>>
    /\ scenario = NoValue
    /\ altFrames = <<>>
    /\ altResult = NoValue
    /\ trimmed = NoValue
    /\ videoFile = NoVideo
    /\ analyzing = FALSE
    /\ analysisError = ""
    /\ poseResult = NoValue
    /\ squatResult = NoValue
    /\ store = NoValue
    /\ route = "/analyze"
    /\ cameraCase = NoValue
    /\ exerciseCase = NoValue
    /\ fpsProbe = NoValue
    /\ extraction = NoValue
    /\ recorder = NoValue

\* one iteration of the loop over the sampled instants
extractFrame ==
    /\ pc = "extracting"
    /\ conditioner.i < Len(rawStream.samples)
    /\ conditioner' = conditionFrame(conditioner, At(rawStream.samples, conditioner.i),
                                     rawStream.timeStep)
    /\ UNCHANGED <<pc, rawStream, euro, signal, detected, redetected, scenario, altFrames,
                   altResult, trimmed>>
    /\ UNCHANGED cameraCase
    /\ UNCHANGED laterVars
    /\ UNCHANGED pageVars

NextCondition == extractFrame

SpecCondition == InitCondition /\ [][NextCondition]_vars

\* what the landmarker delivered at instant i of the stream
rawAt(i) == At(rawStream.samples, i)

\* the displacement of lm from prev is more than 15% of the height (given doubled):
\* 20 * displacement > 3 * height, squared
exceeds15Percent(lm, prev, height2) ==
    40 * 40 * ((lm.x - prev.x) * (lm.x - prev.x) + (lm.y - prev.y) * (lm.y - prev.y))
        > 3 * 3 * height2 * height2

\* the landmark handed on for the observation lm: the previous position with the new
\* visibility when lm is displaced by more than 15% of the height, else lm itself
handedOn(lm, prev, height2) ==
    IF exceeds15Percent(lm, prev, height2)
    THEN [x |-> prev.x, y |-> prev.y, z |-> prev.z, visibility |-> lm.visibility]
    ELSE lm

\* twice the shoulder-to-ankle height of the first kept frame of the stream
firstKeptHeight2 ==
    LET kept == {k \in 0..(Len(rawStream.samples) - 1) : rawAt(k).detected}
    IN estimateBodyHeight2(rawAt(MinOf(kept)).landmarks)

\* twice the shoulder-to-ankle height of the first kept frame, up to instant i, in which
\* that height is not zero; 0 when there is none
firstNonzeroHeight2(i) ==
    LET tall == {k \in 0..i : rawAt(k).detected
                                /\ estimateBodyHeight2(rawAt(k).landmarks) # 0}
    IN IF tall = {} THEN 0 ELSE estimateBodyHeight2(rawAt(MinOf(tall)).landmarks)

\* the loop has just conditioned a kept frame that is not the first kept frame
laterFrameKept ==
    /\ conditioner'.i = conditioner.i + 1
    /\ rawAt(conditioner.i).detected
    /\ conditioner.prevLandmarks.present

withinUlps(a, b, k) ==
    IF b[1] = 0 THEN a = b
    ELSE LET e == Min2(a[2], b[2])
         IN Abs(a[1] * 2^(a[2] - e) - b[1] * 2^(b[2] - e)) <= k * 2^(b[2] - e)

constantStream ==
    \A k \in 1..Len(rawStream.samples) :
        /\ rawStream.samples[k].detected
        /\ rawStream.samples[k].landmarks = rawStream.samples[1].landmarks

firstKept ==
    MinOf({k \in 0..(Len(rawStream.samples) - 1) : rawAt(k).detected})

\* the kept instants after the first that the loop has passed
laterKept ==
    {k \in (firstKept + 1)..(conditioner.i - 1) : rawAt(k).detected}

\* landmark `name` is observed at one position, beyond 15% of the (positive) body height
\* from its accepted position, at every kept instant after the first
jumpedAndStayed(name) ==
    /\ \E k \in 0..(Len(rawStream.samples) - 1) : rawAt(k).detected
    /\ firstKeptHeight2 > 0
    /\ \A k \in (firstKept + 1)..(Len(rawStream.samples) - 1) :
          rawAt(k).detected =>
              /\ exceeds15Percent(rawAt(k).landmarks[name], rawAt(firstKept).landmarks[name],
                                  firstKeptHeight2)
              /\ \A l \in (firstKept + 1)..k :
                    rawAt(l).detected =>
                        /\ rawAt(l).landmarks[name].x = rawAt(k).landmarks[name].x
                        /\ rawAt(l).landmarks[name].y = rawAt(k).landmarks[name].y

\* the position of the output frame for kept instant k (kept instants are pushed in order)
outputAt(k) ==
    conditioner.frames[Cardinality({l \in 0..k : rawAt(l).detected})]

\* C26: the rejector compares each observation with the landmark's last accepted position:
\* a landmark that jumps by more than 15% of the body height and stays at the new position
\* is rejected on every later frame, so the accepted position stays where it was and the
\* conditioned output never reaches the new position
C26_JumpRejectedForGood ==
    \A name \in Conditioned :
        jumpedAndStayed(name) /\ laterKept # {} =>
            LET was == rawAt(firstKept).landmarks[name]
            IN /\ conditioner.prevLandmarks.value[name].x = was.x
               /\ conditioner.prevLandmarks.value[name].y = was.y
               /\ \A k \in laterKept :
                     LET out == outputAt(k).landmarks[name]
                         now == rawAt(k).landmarks[name]
                     IN /\ out.x # fCoord(now.x) \/ out.y # fCoord(now.y)
                        /\ withinUlps(out.x, fCoord(was.x), 4)
                        /\ withinUlps(out.y, fCoord(was.y), 4)
                        /\ out.visibility = now.visibility

\* the left knee jumped by 0.098 in the second frame and was observed there again in the
\* third: both observations were rejected
C26_Witness ==
    /\ conditioner.i = 3
    /\ Len(conditioner.frames) = 3
    /\ jumpedAndStayed("LEFT_KNEE")
    /\ rawAt(1).landmarks["LEFT_KNEE"].x = rawAt(2).landmarks["LEFT_KNEE"].x
    /\ conditioner.prevLandmarks.value["LEFT_KNEE"].x = rawAt(0).landmarks["LEFT_KNEE"].x
    /\ conditioner.frames[3].landmarks["LEFT_KNEE"].x # fCoord(rawAt(2).landmarks["LEFT_KNEE"].x)

-----------------------------------------------------------------------------
(* detectCameraAngle on frame sequences made of runs of one view each      *)
(* (specification SpecAngle)                                               *)

\* largest number of runs in a frame sequence
MaxRuns == 3

\* the lifter as seen in a run: from the front, from the left side, from a diagonal, and
\* with the shoulders hidden
Views ==
    << CleanProfile,
       [CleanProfile EXCEPT !.shoulderHalf = 30],
       [CleanProfile EXCEPT !.shoulderHalf = 70],
       [CleanProfile EXCEPT !.shoulderVis = 20] >>

\* the numbers of frames a run may have
RunLengths == {2, 5, 9}

RECURSIVE runFrames(_)
\* the landmarks, frame by frame, of a sequence of runs <<view, length>>
runFrames(runs) ==
    IF runs = <<>> THEN <<>>
    ELSE [k \in 1..Head(runs)[2] |-> Pose(StandY, Views[Head(runs)[1]])]
            \o runFrames(Tail(runs))

\* the PoseFrames of a sequence of runs
cameraFrames(runs) ==
    LET poses == runFrames(runs)
    IN [k \in 1..Len(poses) |->
          [timestamp |-> (k - 1) * (TicksPerSecond \div 30), landmarks |-> poses[k]]]

RunSeqs == UNION {[1..m -> (1..Len(Views)) \X RunLengths] : m \in 1..MaxRuns}

InitAngle ==
    /\ cameraCase \in {[runs |-> runs, classified |-> FALSE, angle |-> ""] : runs \in RunSeqs}
    /\ pc = "frames"
    /\ rawStream = NoValue
    /\ conditioner = NoValue
    /\ euro = NoValue
    /\ signal = <<>>
    /\ detected = <<>>
    /\ redetected = <<>>
    /\ scenario = NoValue
    /\ altFrames = <<>>
    /\ altResult = NoValue
    /\ trimmed = NoValue
    /\ videoFile = NoVideo
    /\ analyzing = FALSE
    /\ analysisError = ""
    /\ poseResult = NoValue
    /\ squatResult = NoValue
    /\ store = NoValue
    /\ route = "/analyze"
    /\ exerciseCase = NoValue
    /\ fpsProbe = NoValue
    /\ extraction = NoValue
    /\ recorder = NoValue

\* detectCameraAngle on the frames
classifyAngle ==
    /\ pc = "frames"
    /\ cameraCase' = [cameraCase EXCEPT !.classified = TRUE,
                                        !.angle = detectCameraAngle(cameraFrames(cameraCase.runs))]
    /\ pc' = "classified"
    /\ UNCHANGED <<signal, detected, redetected, scenario, altFrames, altResult, trimmed>>
    /\ UNCHANGED pageVars
    /\ UNCHANGED conditionVars
    /\ UNCHANGED laterVars

NextAngle == classifyAngle

SpecAngle == InitAngle /\ [][NextAngle]_vars

RECURSIVE viewsOf(_)
\* the views of the frames, frame by frame
viewsOf(runs) ==
    IF runs = <<>> THEN <<>>
    ELSE [k \in 1..Head(runs)[2] |-> Head(runs)[1]] \o viewsOf(Tail(runs))

\* frame i (from 0) of frames with views vs shows both shoulders with visibility >= 0.3:
\* every view but the last does
shouldersSeen(vs, i) == At(vs, i) # Len(Views)

\* the starts of the runs of 5 consecutive frames with both shoulders visible
stableRuns(vs) == {i \in 0..(Len(vs) - 5) : \A j \in i..(i + 4) : shouldersSeen(vs, j)}

\* the frames that vote when the first stable run starts at frame `first`: those of the
\* at most 15 frames from there on in which both shoulders are visible
voters(vs, first) ==
    {j \in first..(Min2(Len(vs), first + 15) - 1) : shouldersSeen(vs, j)}

\* the label a frame of a view votes for
labelOf(view) == angleVote([landmarks |-> Pose(StandY, Views[view])])

Labels == {labelOf(v) : v \in 1..(Len(Views) - 1)}

\* the number of voting frames that vote for label a
votesFor(vs, voting, a) == Cardinality({j \in voting : labelOf(At(vs, j)) = a})

\* label a has at least 60% of the votes
holdsSixtyPercent(vs, voting, a) == 5 * votesFor(vs, voting, a) >= 3 * Cardinality(voting)

\* detectCameraAngle's answer `angle` for frames with views vs is the vote's outcome
voteDecides(vs, angle) ==
    IF stableRuns(vs) = {} THEN angle = "uncertain"
    ELSE LET voting == voters(vs, MinOf(stableRuns(vs)))
         IN /\ angle # "uncertain" => holdsSixtyPercent(vs, voting, angle)
            /\ \A a \in Labels : holdsSixtyPercent(vs, voting, a) => angle = a
            /\ (\A a \in Labels : ~holdsSixtyPercent(vs, voting, a)) => angle = "uncertain"

\* C20: a label other than uncertain is returned only if there is a run of 5 consecutive
\* frames with both shoulders visible and the label has at least 60% of the votes of the
\* at most 15 frames sampled from the start of the first such run, of which only those
\* with both shoulders visible vote; a label with at least 60% of the votes is returned;
\* without such a run, and when no label has 60%, uncertain is returned
C20_SixtyPercentOfSampledVotes ==
    cameraCase.classified => voteDecides(viewsOf(cameraCase.runs), cameraCase.angle)

\* frames with views vs make detectCameraAngle return a label that has exactly 60% of
\* the votes, the first stable run starting after the first frame and ending before the
\* last 15 frames
sampledMajority(vs, angle) ==
    /\ angle \in Labels
    /\ stableRuns(vs) # {}
    /\ LET first == MinOf(stableRuns(vs))
           voting == voters(vs, first)
       IN /\ first > 0
          /\ Len(vs) > first + 15
          /\ 5 * votesFor(vs, voting, angle) = 3 * Cardinality(voting)
          /\ \E j \in (first + 15)..(Len(vs) - 1) : labelOf(At(vs, j)) # angle

\* a label was returned with exactly 60% of the sampled votes while frames beyond the
\* sample would have voted otherwise
C20_Witness ==
    /\ cameraCase.classified
    /\ sampledMajority(viewsOf(cameraCase.runs), cameraCase.angle)

-----------------------------------------------------------------------------
(* detectExerciseType on frame sequences made of segments                  *)
(* (specification SpecExercise)                                            *)

\* the segments of the input videos, a quarter squat, and a squat with the hips hidden
ExerciseKinds ==
    SegKinds \o << [shape |-> Hinge, prof |-> CleanProfile],
                   [shape |-> Deep, prof |-> [CleanProfile EXCEPT !.hipVis = 20]] >>

RECURSIVE exerciseFrames(_)
\* the PoseFrames of a sequence of segment kinds (timestamps play no part)
exerciseFrames(kinds) ==
    IF kinds = <<>> THEN <<>>
    ELSE LET seg == ExerciseKinds[Head(kinds)]
         IN SelectSeq([k \in 1..Len(seg.shape) |->
                          [timestamp |-> 0, detected |-> seg.prof.detected,
                           landmarks |-> Pose(seg.shape[k], seg.prof)]],
                      LAMBDA f : f.detected)
               \o exerciseFrames(Tail(kinds))

InitExercise ==
    /\ exerciseCase \in {[kinds |-> ks, classified |-> FALSE, type |-> ""] :
                            ks \in UNION {[1..m -> 1..Len(ExerciseKinds)] : m \in 1..MaxSegs}}
    /\ pc = "frames"
    /\ cameraCase = NoValue
    /\ fpsProbe = NoValue
    /\ extraction = NoValue
    /\ recorder = NoValue
    /\ rawStream = NoValue
    /\ conditioner = NoValue
    /\ euro = NoValue
    /\ signal = <<>>
    /\ detected = <<>>
    /\ redetected = <<>>
    /\ scenario = NoValue
    /\ altFrames = <<>>
    /\ altResult = NoValue
    /\ trimmed = NoValue
    /\ videoFile = NoVideo
    /\ analyzing = FALSE
    /\ analysisError = ""
    /\ poseResult = NoValue
    /\ squatResult = NoValue
    /\ store = NoValue
    /\ route = "/analyze"

\* detectExerciseType on the frames
classifyExercise ==
    /\ pc = "frames"
    /\ exerciseCase' = [exerciseCase EXCEPT
                          !.classified = TRUE,
                          !.type = detectExerciseType(exerciseFrames(exerciseCase.kinds))]
    /\ pc' = "classified"
    /\ UNCHANGED <<signal, detected, redetected, scenario, altFrames, altResult, trimmed>>
    /\ UNCHANGED pageVars
    /\ UNCHANGED conditionVars
    /\ UNCHANGED <<cameraCase, fpsProbe, extraction, recorder>>

NextExercise == classifyExercise

SpecExercise == InitExercise /\ [][NextExercise]_vars

\* the frames of fs with usable hip data: both hip visibilities are at least 0.3
usableHips(fs) ==
    SelectSeq(fs, LAMBDA f : L(f, "LEFT_HIP").visibility >= 30
                              /\ L(f, "RIGHT_HIP").visibility >= 30)

\* largest minus smallest element of a non-empty set of numbers, 0 for the empty set
spread(S) == IF S = {} THEN 0 ELSE MaxOf(S) - MinOf(S)

\* the knee angles (millidegrees) measured in the frames `used` on the given side, where
\* knee and ankle are visible
kneeAnglesOf(used, side) ==
    {angleBetween(L(used[k], side \o "_HIP"), L(used[k], side \o "_KNEE"),
                  L(used[k], side \o "_ANKLE")) :
        k \in {j \in 1..Len(used) : /\ L(used[j], side \o "_KNEE").visibility > 30
                                    /\ L(used[j], side \o "_ANKLE").visibility > 30}}

\* the class the rules give for doubled hip ranges (thousandths) and the knee angle range
classByRules(hipYRange2, hipXRange2, kneeAngleRange) ==
    IF hipYRange2 > 2 * 100 /\ kneeAngleRange > 30 * 1000 THEN "squat"
    ELSE IF hipYRange2 > 2 * 80 /\ hipXRange2 > 2 * 50 /\ kneeAngleRange < 30 * 1000
    THEN "deadlift"
    ELSE IF hipYRange2 > 2 * 50 THEN "squat"
    ELSE "other"

\* the class the rules give for the frames `used`
ruledClass(used) ==
    classByRules(spread({HipY2(used[k]) : k \in 1..Len(used)}),
                 spread({L(used[k], "LEFT_HIP").x + L(used[k], "RIGHT_HIP").x :
                            k \in 1..Len(used)}),
                 spread(kneeAnglesOf(used, "LEFT") \cup kneeAnglesOf(used, "RIGHT")))

\* `type` is unknown when fewer than 2 frames are usable, else the class of the rules
classifiedByRules(used, type) ==
    type = IF Len(used) < 2 THEN "unknown" ELSE ruledClass(used)

\* C21 as stated: detectExerciseType returns unknown when fewer than 2 frames have usable
\* hip data, and otherwise the class the rules give in their order
C21_ClassByRules ==
    exerciseCase.classified =>
        classifiedByRules(usableHips(exerciseFrames(exerciseCase.kinds)), exerciseCase.type)

\* `type` is unknown for fewer than 4 frames or fewer than 2 usable ones, else the class
\* of the rules
classifiedFromFourFrames(fs, used, type) ==
    type = IF Len(fs) < 4 \/ Len(used) < 2 THEN "unknown" ELSE ruledClass(used)

\* C21 amended: detectExerciseType returns unknown when the sequence has fewer than 4
\* frames or fewer than 2 frames with usable hip data, and otherwise the class the rules
\* give in their order
C21_ClassByRulesFromFourFrames ==
    exerciseCase.classified =>
        classifiedFromFourFrames(exerciseFrames(exerciseCase.kinds),
                                 usableHips(exerciseFrames(exerciseCase.kinds)),
                                 exerciseCase.type)

\* a sequence of at least 4 frames, some with hidden hips, was classified a deadlift
C21_Witness ==
    /\ exerciseCase.classified
    /\ exerciseCase.type = "deadlift"
    /\ Len(usableHips(exerciseFrames(exerciseCase.kinds)))
          < Len(exerciseFrames(exerciseCase.kinds))

-----------------------------------------------------------------------------
(* detectNativeFps: the frame callbacks, the 5-second timeout and the        *)
(* rejection of play() race to settle the promise (specification SpecProbe). *)
(* Media times are in ticks; the timeout may fire at any point of the race.  *)

\* the variables of the analysis pipeline and of its harnesses, at rest in the
\* specifications below
analysisVars == <<videoFile, analyzing, analysisError, poseResult, squatResult, trimmed, store,
                  route, signal, detected, redetected, scenario, altFrames, altResult,
                  rawStream, conditioner, euro, cameraCase, exerciseCase>>

analysisIdle ==
    /\ videoFile = NoVideo
    /\ analyzing = FALSE
    /\ analysisError = ""
    /\ poseResult = NoValue
    /\ squatResult = NoValue
    /\ trimmed = NoValue
    /\ store = NoValue
    /\ route = "/analyze"
    /\ signal = <<>>
    /\ detected = <<>>
    /\ redetected = <<>>
    /\ scenario = NoValue
    /\ altFrames = <<>>
    /\ altResult = NoValue
    /\ rawStream = NoValue
    /\ conditioner = NoValue
    /\ euro = NoValue
    /\ cameraCase = NoValue
    /\ exerciseCase = NoValue

TARGET_FRAMES == 15

\* the media-time steps between presented frames, repeated: a frozen picture, 30 fps,
\* 60 fps, every frame presented twice at 15 fps, and one frame every 3 seconds
FrameSteps ==
    << <<0>>, <<TicksPerSecond \div 30>>, <<TicksPerSecond \div 60>>,
       <<0, TicksPerSecond \div 15>>, <<3 * TicksPerSecond>> >>

RECURSIVE mediaTime(_, _)
\* metadata.mediaTime of the n-th presented frame (n >= 1) of a video with the given steps
mediaTime(steps, n) ==
    IF n = 1 THEN 0 ELSE mediaTime(steps, n - 1) + steps[((n - 2) % Len(steps)) + 1]

\* finish that does not look at `done`
finishAgain(p, fps) ==
    [p EXCEPT !.done = TRUE, !.paused = TRUE, !.currentTime = 0,
              !.resolved = Append(@, fps)]

\* finish(fps): the first call pauses, rewinds and resolves; later calls return at once
finish(p, fps) ==
    IF p.done THEN p
    ELSE [p EXCEPT !.done = TRUE, !.paused = TRUE, !.currentTime = 0,
                   !.resolved = Append(@, fps)]

\* clearTimeout(timeout): a timer that has not fired will not fire
clearTimeout(p) == IF p.timer = "armed" THEN [p EXCEPT !.timer = "cleared"] ELSE p

\* the value onFrame finishes with once TARGET_FRAMES media times are collected
measuredFps(timestamps) ==
    LET dts == [i \in 1..(Len(timestamps) - 1) |-> timestamps[i + 1] - timestamps[i]]
        positive(dt) == dt > 0
        intervals == SelectSeq(dts, positive)
        \* Math.round(1 / avgInterval), avgInterval in seconds
        fps == mathRound(TicksPerSecond * Len(intervals), SumSeq(intervals))
    IN IF Len(intervals) = 0 THEN 30
       ELSE IF fps > 0 THEN fps ELSE 30

InitProbe ==
    /\ fpsProbe \in {[called |-> FALSE, hasFrameCallback |-> api, steps |-> FrameSteps[v],
                       timestamps |-> <<>>, done |-> FALSE, timer |-> "none",
                       play |-> "none", requested |-> FALSE, lateRequests |-> 0,
                       paused |-> TRUE, currentTime |-> 0, resolved |-> <<>>] :
                         api \in BOOLEAN, v \in 1..Len(FrameSteps)}
    /\ pc = "probe"
    /\ extraction = NoValue
    /\ recorder = NoValue
    /\ analysisIdle

\* the promise executor: without requestVideoFrameCallback it resolves 30; otherwise it
\* arms the timeout, requests the first frame callback and calls play()
callDetectNativeFps ==
    /\ ~fpsProbe.called
    /\ fpsProbe' =
          IF ~fpsProbe.hasFrameCallback
          THEN [fpsProbe EXCEPT !.called = TRUE, !.resolved = Append(@, 30)]
          ELSE [fpsProbe EXCEPT !.called = TRUE, !.timer = "armed", !.requested = TRUE,
                                !.play = "pending", !.paused = FALSE]
    /\ UNCHANGED <<pc, extraction, recorder>>
    /\ UNCHANGED analysisVars

\* requestVideoFrameCallback(onFrame) at the end of onFrame
requestAgain(p) ==
    [p EXCEPT !.requested = TRUE,
              !.lateRequests = IF p.done THEN @ + 1 ELSE @]

\* the browser presents a frame and runs the requested callback
onFrame ==
    /\ fpsProbe.requested
    /\ LET delivered == [fpsProbe EXCEPT !.requested = FALSE]
           pushed == [delivered EXCEPT
                        !.timestamps = Append(@, mediaTime(fpsProbe.steps, Len(@) + 1))]
       IN fpsProbe' =
            IF fpsProbe.done THEN delivered
            ELSE IF Len(pushed.timestamps) >= TARGET_FRAMES
            THEN finish(clearTimeout(pushed), measuredFps(pushed.timestamps))
            ELSE requestAgain(pushed)
    /\ UNCHANGED <<pc, extraction, recorder>>
    /\ UNCHANGED analysisVars

\* 5 seconds have passed
timeoutFires ==
    /\ fpsProbe.timer = "armed"
    /\ fpsProbe' = finish([fpsProbe EXCEPT !.timer = "fired"], 30)
    /\ UNCHANGED <<pc, extraction, recorder>>
    /\ UNCHANGED analysisVars

\* the promise of play() is rejected (no autoplay, or interrupted by pause()): the catch
\* handler runs
playRejects ==
    /\ fpsProbe.play = "pending"
    /\ fpsProbe' = finish(clearTimeout([fpsProbe EXCEPT !.play = "rejected"]), 30)
    /\ UNCHANGED <<pc, extraction, recorder>>
    /\ UNCHANGED analysisVars

\* the promise of play() is fulfilled: playback has started
playStarts ==
    /\ fpsProbe.play = "pending"
    /\ ~fpsProbe.paused
    /\ fpsProbe' = [fpsProbe EXCEPT !.play = "fulfilled"]
    /\ UNCHANGED <<pc, extraction, recorder>>
    /\ UNCHANGED analysisVars

NextProbe ==
    \/ callDetectNativeFps
    \/ onFrame
    \/ timeoutFires
    \/ playRejects
    \/ playStarts

\* the executor runs when detectNativeFps is called, and an armed timer fires
SpecProbe ==
    InitProbe /\ [][NextProbe]_vars /\ WF_vars(callDetectNativeFps) /\ WF_vars(timeoutFires)

settled == Len(fpsProbe.resolved) >= 1

\* this step is the first call of finish
settles == ~fpsProbe.done /\ fpsProbe'.done

\* C28: detectNativeFps settles its promise exactly once with a positive integer, whatever
\* the order of frame callbacks, timeout and rejection of play(): the first to finish
\* decides and later ones change nothing, no frame callback is requested after settlement,
\* and the value is 30 when the frame-callback API is missing, when the timeout or the
\* rejection of play() finishes first, or when no positive interval was measured
C28_SettlesOnceWithPositiveFps ==
    /\ [](/\ Len(fpsProbe.resolved) <= 1
          /\ settled => fpsProbe.resolved[1] \in Nat \ {0}
          /\ settled /\ ~fpsProbe.hasFrameCallback => fpsProbe.resolved[1] = 30
          /\ fpsProbe.hasFrameCallback => (settled <=> fpsProbe.done)
          /\ fpsProbe.lateRequests = 0
          /\ fpsProbe.done => fpsProbe.paused /\ fpsProbe.currentTime = 0)
    /\ [][/\ settled => fpsProbe'.resolved = fpsProbe.resolved
          /\ fpsProbe.done /\ ~fpsProbe.requested => ~fpsProbe'.requested
          /\ settles /\ fpsProbe'.timer = "fired" /\ fpsProbe.timer = "armed"
                => fpsProbe'.resolved = <<30>>
          /\ settles /\ fpsProbe'.play = "rejected" /\ fpsProbe.play = "pending"
                => fpsProbe'.resolved = <<30>>
          /\ settles /\ Len(fpsProbe'.timestamps) > Len(fpsProbe.timestamps)
                => /\ Len(fpsProbe'.timestamps) = TARGET_FRAMES
                   /\ fpsProbe'.resolved = <<measuredFps(fpsProbe'.timestamps)>>
                   /\ (\A i \in 1..(TARGET_FRAMES - 1) :
                          fpsProbe'.timestamps[i + 1] <= fpsProbe'.timestamps[i])
                        => fpsProbe'.resolved = <<30>>]_vars
    /\ <>settled

\* fifteen frame callbacks decided on 60 fps and cleared the timeout; the rejection of
\* play() came afterwards and changed nothing
C28_Witness ==
    /\ fpsProbe.hasFrameCallback
    /\ Len(fpsProbe.timestamps) = TARGET_FRAMES
    /\ fpsProbe.resolved = <<60>>
    /\ fpsProbe.play = "rejected"
    /\ fpsProbe.timer = "cleared"

-----------------------------------------------------------------------------
(* processVideo as the owner of the landmarker and of the hidden video       *)
(* element: every await of its try block may be where it leaves              *)
(* (specification SpecExtract)                                               *)

\* largest number of sampled instants of the loop
MaxSteps == 2

\* how the checks after the loop end: a result, or one of the four errors
Gates == {"result", NoPersonError, LowVisibilityError, DeadliftError, OtherExerciseError}

InitExtract ==
    /\ extraction \in {[at |-> "start", landmarker |-> "null", closeThrows |-> ct,
                         closeCalls |-> 0, videoEl |-> "null", element |-> "none",
                         errored |-> FALSE, totalSteps |-> n, i |-> 0, gate |-> g,
                         settled |-> "pending", error |-> ""] :
                           ct \in BOOLEAN, n \in 0..MaxSteps, g \in Gates}
    /\ pc = "extract"
    /\ fpsProbe = NoValue
    /\ recorder = NoValue
    /\ analysisIdle

\* the finally block with a close() whose exception escapes: the element stays
finallyCloseUncaught(e) ==
    LET closed == IF e.landmarker = "null" THEN e
                  ELSE [e EXCEPT !.closeCalls = @ + 1,
                                 !.landmarker = IF e.closeThrows THEN "failed" ELSE "closed"]
    IN IF closed.landmarker = "failed" THEN closed
       ELSE IF closed.videoEl = "set" /\ closed.element = "attached"
       THEN [closed EXCEPT !.element = "detached"]
       ELSE closed

\* the finally block: close the landmarker if there is one, ignoring what close()
\* throws, and remove the video element if there is one and it has a parent
finally(e) ==
    LET closed == IF e.landmarker = "null" THEN e
                  ELSE [e EXCEPT !.closeCalls = @ + 1,
                                 !.landmarker = IF e.closeThrows THEN "failed" ELSE "closed"]
    IN IF closed.videoEl = "set" /\ closed.element = "attached"
       THEN [closed EXCEPT !.element = "detached"]
       ELSE closed

\* an error leaves the try block: the finally block runs, then the promise rejects
throws(e, message) ==
    [finally(e) EXCEPT !.at = "left", !.settled = "rejected", !.error = message]

\* the return statement: the finally block runs, then the promise fulfils
returns(e) ==
    [finally(e) EXCEPT !.at = "left", !.settled = "fulfilled"]

extractStep(next) ==
    /\ extraction' = next
    /\ UNCHANGED <<pc, fpsProbe, recorder>>
    /\ UNCHANGED analysisVars

\* createLandmarker resolves
landmarkerCreated ==
    /\ extraction.at = "start"
    /\ extractStep([extraction EXCEPT !.at = "preparing", !.landmarker = "open"])

\* createLandmarker rejects: the model could not be loaded
landmarkerFails ==
    /\ extraction.at = "start"
    /\ extractStep(throws(extraction, "model"))

\* prepareVideo creates the element and appends it to the document
prepareVideo ==
    /\ extraction.at = "preparing"
    /\ extractStep([extraction EXCEPT !.at = "loading", !.element = "attached"])

\* video.onloadeddata: prepareVideo resolves with the element
onloadeddata ==
    /\ extraction.at = "loading"
    /\ extractStep([extraction EXCEPT !.at = "probing", !.videoEl = "set"])

\* video.onerror, which stays installed: it removes the element (removeChild throws
\* inside the handler when the element is no longer in the document) and rejects the
\* promise of prepareVideo, which has an effect only while processVideo awaits it
onerror ==
    /\ extraction.element # "none"
    /\ ~extraction.errored
    /\ LET removed == [extraction EXCEPT
                          !.errored = TRUE,
                          !.element = IF @ = "attached" THEN "detached" ELSE @]
       IN extractStep(IF extraction.at = "loading"
                      THEN throws(removed, "Failed to load video for analysis")
                      ELSE removed)

\* detectNativeFps resolves
fpsDetected ==
    /\ extraction.at = "probing"
    /\ extractStep([extraction EXCEPT !.at = "looping"])

\* one iteration of the loop: seekTo resolves and detectForVideo returns
frameProcessed ==
    /\ extraction.at = "looping"
    /\ extraction.i <= extraction.totalSteps
    /\ extractStep([extraction EXCEPT !.i = @ + 1])

\* detectForVideo throws in an iteration of the loop
detectForVideoThrows ==
    /\ extraction.at = "looping"
    /\ extraction.i <= extraction.totalSteps
    /\ extractStep(throws(extraction, "detect"))

\* the loop is over: the checks throw their error, or processVideo returns the result
leave ==
    /\ extraction.at = "looping"
    /\ extraction.i > extraction.totalSteps
    /\ extractStep(IF extraction.gate = "result" THEN returns(extraction)
                   ELSE throws(extraction, extraction.gate))

NextExtract ==
    \/ landmarkerCreated
    \/ landmarkerFails
    \/ prepareVideo
    \/ onloadeddata
    \/ onerror
    \/ fpsDetected
    \/ frameProcessed
    \/ detectForVideoThrows
    \/ leave

SpecExtract == InitExtract /\ [][NextExtract]_vars

\* C29: whenever the promise of processVideo has settled, by a return or by an error
\* thrown after the landmarker was created, close() has been called on the landmarker,
\* and the hidden video element, if it was created, is no longer in the document
C29_CleanedUpOnEveryExit ==
    extraction.settled # "pending" =>
        /\ extraction.landmarker # "null"
              => extraction.closeCalls = 1 /\ extraction.landmarker # "open"
        /\ extraction.element # "attached"

\* detectForVideo threw in the loop, close() threw as well, and the element was removed
C29_Witness ==
    /\ extraction.settled = "rejected"
    /\ extraction.error = "detect"
    /\ extraction.closeThrows
    /\ extraction.closeCalls = 1
    /\ extraction.i >= 1
    /\ extraction.element = "detached"
    /\ ~extraction.errored

-----------------------------------------------------------------------------
(* The camera recorder of the analyze page: CameraRecorder, handleRecorded   *)
(* and the mode of AnalyzePage.  MediaRecorder.stop() returns at once and    *)
(* the recorder's stop event is delivered later (specification SpecRecorder) *)

\* largest number of times the recorder is opened, of recordings started while it is
\* open, and of chunks a recording collects
MaxSessions == 2
MaxTakes == 1
MaxChunks == 2

NoBlob == [session |-> 0, take |-> 0, chunks |-> 0]

InitRecorder ==
    /\ recorder = [mode |-> "choose", session |-> 0, camera |-> "none", cameraReady |-> FALSE,
                   recording |-> FALSE, mediaRecorder |-> "none", take |-> 0,
                   chunks |-> 0,
                   stops |-> <<>>, videoFile |-> NoBlob, videoDuration |-> "unset",
                   abandoned |-> {}]
    /\ pc = "recorder"
    /\ fpsProbe = NoValue
    /\ extraction = NoValue
    /\ analysisIdle

hasVideo == recorder.videoFile # NoBlob

\* CameraRecorder is rendered
recorderShown == ~hasVideo /\ recorder.mode = "record"

recorderStep(next) ==
    /\ recorder' = next
    /\ UNCHANGED <<pc, fpsProbe, extraction>>
    /\ UNCHANGED analysisVars

\* stopStream
stopStream(r) == [r EXCEPT !.camera = IF @ = "live" THEN "stopped" ELSE @]

\* stopRecording: MediaRecorder.stop() queues the stop event
stopRecording(r) ==
    [r EXCEPT !.mediaRecorder = IF @ = "recording" THEN "inactive" ELSE @,
              !.stops = IF r.mediaRecorder = "recording"
                        THEN Append(@, [session |-> r.session, take |-> r.take,
                                         chunks |-> r.chunks])
                        ELSE @,
              !.recording = FALSE]

\* "Record Now": setMode("record"); CameraRecorder mounts and calls startCamera
recordNow ==
    /\ ~hasVideo
    /\ recorder.mode = "choose"
    /\ recorder.session < MaxSessions
    /\ recorderStep([recorder EXCEPT !.mode = "record", !.session = @ + 1,
                                     !.camera = "asking", !.cameraReady = FALSE,
                                     !.recording = FALSE, !.mediaRecorder = "none",
                                     !.take = 0, !.chunks = 0])

\* getUserMedia resolves
cameraGranted ==
    /\ recorder.camera = "asking"
    /\ recorderStep([recorder EXCEPT !.camera = "live", !.cameraReady = recorderShown])

\* getUserMedia rejects
cameraDenied ==
    /\ recorder.camera = "asking"
    /\ recorderStep([recorder EXCEPT !.camera = "denied"])

startRecording ==
    /\ recorderShown
    /\ recorder.cameraReady
    /\ ~recorder.recording
    /\ recorder.camera = "live"
    /\ recorder.take < MaxTakes
    /\ recorderStep([recorder EXCEPT !.take = @ + 1, !.chunks = 0,
                                     !.mediaRecorder = "recording", !.recording = TRUE])

\* mr.ondataavailable with data
ondataavailable ==
    /\ recorder.mediaRecorder = "recording"
    /\ recorder.chunks < MaxChunks
    /\ recorderStep([recorder EXCEPT !.chunks = @ + 1])

\* the Stop button
stopPressed ==
    /\ recorderShown
    /\ recorder.recording
    /\ recorderStep(stopRecording(recorder))

\* the Back button of the recorder: handleBack, then onBack = setMode("choose")
handleBack ==
    /\ recorderShown
    /\ LET stopped == IF recorder.recording THEN stopRecording(recorder) ELSE recorder
           left == [stopStream(stopped) EXCEPT
                      !.mode = "choose",
                      !.abandoned = IF recorder.recording
                                    THEN @ \cup {<<recorder.session, recorder.take>>}
                                    ELSE @]
       IN recorderStep(left)

\* mr.onstop: the blob of the chunks goes to onRecorded = handleRecorded, which selects
\* it as the video and starts reading its duration; then stopStream
onstop ==
    /\ recorder.stops # <<>>
    /\ LET blob == Head(recorder.stops)
           selected == [recorder EXCEPT !.stops = Tail(@), !.videoFile = blob,
                                        !.videoDuration = "reading"]
       IN recorderStep(IF blob.session = recorder.session THEN stopStream(selected)
                       ELSE selected)

\* getVideoDuration settles: setVideoDuration(dur), or 0 when it rejects
durationRead ==
    /\ recorder.videoDuration = "reading"
    /\ \E d \in {"known", "zero"} : recorderStep([recorder EXCEPT !.videoDuration = d])

\* Discard in the preview: onDiscard = clearVideo
onDiscard ==
    /\ hasVideo
    /\ recorderStep([recorder EXCEPT !.videoFile = NoBlob, !.videoDuration = "unset",
                                     !.mode = "choose"])

NextRecorder ==
    \/ recordNow
    \/ cameraGranted
    \/ cameraDenied
    \/ startRecording
    \/ ondataavailable
    \/ stopPressed
    \/ handleBack
    \/ onstop
    \/ durationRead
    \/ onDiscard

SpecRecorder == InitRecorder /\ [][NextRecorder]_vars

\* C30: a recording during which Back was pressed is discarded: it never becomes the
\* selected video, and once its stop event has been delivered the page is in choose mode
\* with no video selected unless the user has opened the recorder again since
C30_BackDiscardsRecording ==
    /\ <<recorder.videoFile.session, recorder.videoFile.take>> \notin recorder.abandoned
    /\ (/\ <<recorder.session, recorder.take>> \in recorder.abandoned
        /\ recorder.stops = <<>>) => recorder.mode = "choose" /\ ~hasVideo

====
